---- MODULE Spec2Model ----
(***************************************************************************)
(* A model of clausewitz_parser: the byte-level Tokenizer (src/token.rs)   *)
(* and the recursive-descent Parser (src/parser.rs) with the value model   *)
(* of src/clval.rs.                                                        *)
(*                                                                         *)
(* Bytes are one-character strings, byte slices are sequences of them.     *)
(* Indices (pos, untyped_start, position) are 0-based as in the source;    *)
(* a TLA+ sequence is indexed from 1, hence the "+ 1" at every access.     *)
(* Option<usize> is <<>> (None) or <<n>> (Some(n)).                        *)
(***************************************************************************)
EXTENDS Integers, Sequences, FiniteSets, TLC

VARIABLES
    buf,            \* Tokenizer.buf
    pos,            \* index of the next byte of the for loop in tokenize
    untyped_start,  \* tokenize: let mut untyped_start
    in_quote,       \* tokenize: let mut in_quote
    in_comment,     \* tokenize: let mut in_comment
    tstate,         \* tokenize: "idle", "scan", "done" or "panic"
    tokens,         \* tokenize: let mut tokens / Parser.tokens
    position,       \* Parser.position
    current_indent, \* Parser.current_indent
    stack,          \* the call stack of the parser, innermost frame last
    ret,            \* the Result returned by the call that finished last
    outcome,        \* what Parser::parse gave its caller
    call,           \* the accessor of ClKey / ClVal that was called, and its self
    accessed        \* the Result of that accessor

vars == <<buf, pos, untyped_start, in_quote, in_comment, tstate, tokens,
          position, current_indent, stack, ret, outcome, call, accessed>>

tokVars == <<buf, pos, untyped_start, in_quote, in_comment, tstate>>
parseVars == <<position, current_indent, stack, ret, outcome>>
callVars == <<call, accessed>>

(***************************************************************************)
(* Bounds of the model.                                                    *)
(***************************************************************************)
MaxBufLen == 5
MaxTokens == 4
MaxSliceLen == 4
MaxParseLen == 4

Range(f) == {f[i] : i \in DOMAIN f}

None == <<>>
Some(n) == <<n>>
is_some(o) == o # None
unwrap(o) == o[1]

\* the sequences over S of length at most n
SeqsUpTo(S, n) == UNION {[1..k -> S] : k \in 0..n}

(***************************************************************************)
(* Tokens (src/token.rs).                                                  *)
(***************************************************************************)
Punct(kind) == [k |-> kind, b |-> <<>>]
Untyped(bytes) == [k |-> "Untyped", b |-> bytes]

Equals == Punct("Equals")
Quote == Punct("Quote")
LeftCurly == Punct("LeftCurly")
RightCurly == Punct("RightCurly")
LeftParanthesis == Punct("LeftParanthesis")
RightParanthesis == Punct("RightParanthesis")
Comment == Punct("Comment")
Comma == Punct("Comma")

NoToken == Punct("NoToken")

TryFrom(chr) ==
    CASE chr = "=" -> Equals
      [] chr = "\"" -> Quote
      [] chr = "{" -> LeftCurly
      [] chr = "}" -> RightCurly
      [] chr = "(" -> LeftParanthesis
      [] chr = ")" -> RightParanthesis
      [] chr = "#" -> Comment
      [] chr = "," -> Comma
      [] OTHER -> NoToken

\* the whitespace test without the newline arm
is_whitespace_NoNewline(chr) == chr \in {" ", "\r", "\t"}

is_whitespace(chr) == chr \in {" ", "\n", "\r", "\t"}

is_equals(token) == token.k = "Equals"

(***************************************************************************)
(* Values and keys (src/clval.rs).  Every ClKey is a record [t, n, s] and  *)
(* every ClVal a record [t, n, s, items, map]: t is the variant, n the     *)
(* numbers of the payload (<<i>> for Integer, <<year, month, day>> for     *)
(* Date, <<0>> or <<1>> for Bool), s the text of the payload, items the    *)
(* elements of a List and map the HashMap of a Dict.                       *)
(***************************************************************************)
Key(t, n, s) == [t |-> t, n |-> n, s |-> s]
Val(t, n, s) == [t |-> t, n |-> n, s |-> s, items |-> <<>>, map |-> <<>>]

KeyInteger(i) == Key("Integer", <<i>>, <<>>)
KeyString(b) == Key("String", <<>>, b)
KeyDate(y, m, d) == Key("Date", <<y, m, d>>, <<>>)
KeyIdentifier(b) == Key("Identifier", <<>>, b)

ValInteger(i) == Val("Integer", <<i>>, <<>>)
ValString(b) == Val("String", <<>>, b)
ValDate(y, m, d) == Val("Date", <<y, m, d>>, <<>>)
ValIdentifier(b) == Val("Identifier", <<>>, b)
ValBool(x) == Val("Bool", <<IF x THEN 1 ELSE 0>>, <<>>)
\* the f32 is kept as the text handed to parse::<f32>
ValFloat(text) == Val("Float", <<>>, text)
ValList(items) == [t |-> "List", n |-> <<>>, s |-> <<>>, items |-> items, map |-> <<>>]
ValDict(map) == [t |-> "Dict", n |-> <<>>, s |-> <<>>, items |-> <<>>, map |-> map]

NoKey == Key("none", <<>>, <<>>)
NoVal == Val("none", <<>>, <<>>)

\* the arm of Identifier gives a String
Into_IdentifierAsString(key) ==
    Val(IF key.t = "Identifier" THEN "String" ELSE key.t, key.n, key.s)

\* impl Into<ClVal> for ClKey
Into(key) == Val(key.t, key.n, key.s)

\* HashMap::new() and HashMap::insert
EmptyMap == <<>>

\* an insert that keeps the value the key already has
Insert_KeepFirst(map, key, value) ==
    [k \in DOMAIN map \cup {key} |-> IF k \in DOMAIN map THEN map[k] ELSE value]

Insert(map, key, value) ==
    [k \in DOMAIN map \cup {key} |-> IF k = key THEN value ELSE map[k]]

(***************************************************************************)
(* The typed accessors of ClKey and ClVal (src/clval.rs 87-119, 145-209).  *)
(* The Result of an accessor is Ok with the payload of self (its numbers,  *)
(* text, items or map) or Err(InvalidValue(t)) with the text t.            *)
(***************************************************************************)
AccessOk(n, s, items, map) ==
    [st |-> "ok", n |-> n, s |-> s, items |-> items, map |-> map, kind |-> ""]
InvalidValue(t) ==
    [st |-> "err", n |-> <<>>, s |-> <<>>, items |-> <<>>, map |-> <<>>, kind |-> t]
NotAccessed ==
    [st |-> "none", n |-> <<>>, s |-> <<>>, items |-> <<>>, map |-> <<>>, kind |-> ""]

ClKey_as_i32(self) ==
    IF self.t = "Integer" THEN AccessOk(self.n, <<>>, <<>>, <<>>) ELSE InvalidValue("integer")
ClKey_as_string(self) ==
    IF self.t = "String" THEN AccessOk(<<>>, self.s, <<>>, <<>>) ELSE InvalidValue("string")
ClKey_as_identifier(self) ==
    IF self.t = "Identifier" THEN AccessOk(<<>>, self.s, <<>>, <<>>)
    ELSE InvalidValue("identifier")
ClKey_as_date(self) ==
    IF self.t = "Date" THEN AccessOk(self.n, <<>>, <<>>, <<>>) ELSE InvalidValue("identifier")

ClVal_as_i32(self) ==
    IF self.t = "Integer" THEN AccessOk(self.n, <<>>, <<>>, <<>>) ELSE InvalidValue("integer")
ClVal_as_f32(self) ==
    IF self.t = "Float" THEN AccessOk(<<>>, self.s, <<>>, <<>>) ELSE InvalidValue("float")
ClVal_as_string(self) ==
    IF self.t = "String" THEN AccessOk(<<>>, self.s, <<>>, <<>>) ELSE InvalidValue("string")
ClVal_as_bool(self) ==
    IF self.t = "Bool" THEN AccessOk(self.n, <<>>, <<>>, <<>>) ELSE InvalidValue("bool")
ClVal_as_list(self) ==
    IF self.t = "List" THEN AccessOk(<<>>, <<>>, self.items, <<>>) ELSE InvalidValue("list")
ClVal_as_dict(self) ==
    IF self.t = "Dict" THEN AccessOk(<<>>, <<>>, <<>>, self.map) ELSE InvalidValue("dict")
ClVal_as_identifier(self) ==
    IF self.t = "Identifier" THEN AccessOk(<<>>, self.s, <<>>, <<>>)
    ELSE InvalidValue("identifier")
ClVal_as_date(self) ==
    IF self.t = "Date" THEN AccessOk(self.n, <<>>, <<>>, <<>>) ELSE InvalidValue("identifier")

\* no accessor has been called
NoCall ==
    /\ call = [on |-> "none", fn |-> "none", self |-> NoVal, key |-> NoKey]
    /\ accessed = NotAccessed

(***************************************************************************)
(* Conversions of a byte slice (src/parser.rs 323-389, src/clval.rs 56-70) *)
(***************************************************************************)
I32Max == 2147483647
U8Max == 255

Digits == <<"0", "1", "2", "3", "4", "5", "6", "7", "8", "9">>
IsDigit(c) == c \in Range(Digits)
DigitVal(c) == (CHOOSE d \in DOMAIN Digits : Digits[d] = c) - 1
IsDigits(b) == \A i \in DOMAIN b : IsDigit(b[i])

Ok(v) == [ok |-> TRUE, v |-> v]
Err == [ok |-> FALSE, v |-> 0]

\* the digit loop of the standard from_str_radix: acc * 10 + d with
\* checked_mul / checked_add against max, on digits only
RECURSIVE AccumulateUp(_, _, _)
AccumulateUp(b, acc, max) ==
    IF b = <<>> THEN Ok(acc)
    ELSE IF ~IsDigit(Head(b)) THEN Err
    ELSE IF acc > max \div 10 THEN Err
    ELSE IF acc * 10 > max - DigitVal(Head(b)) THEN Err
    ELSE AccumulateUp(Tail(b), acc * 10 + DigitVal(Head(b)), max)

\* the same loop for a negative number: acc * 10 - d with checked_mul /
\* checked_sub against i32::MIN = -I32Max - 1
RECURSIVE AccumulateDown(_, _)
AccumulateDown(b, acc) ==
    IF b = <<>> THEN Ok(acc)
    ELSE IF ~IsDigit(Head(b)) THEN Err
    ELSE IF acc < -(I32Max \div 10) THEN Err
    ELSE IF acc * 10 < (-I32Max - 1) + DigitVal(Head(b)) THEN Err
    ELSE AccumulateDown(Tail(b), acc * 10 - DigitVal(Head(b)))

\* the digits of b accumulated in 32 bits without a test, the number being
\* held as two halves of 16 bits: hi * 2^16 + lo modulo 2^32
RECURSIVE WrappingAccumulate(_, _, _)
WrappingAccumulate(b, hi, lo) ==
    IF b = <<>> THEN Ok(IF hi >= 32768 THEN (hi - 65536) * 65536 + lo ELSE hi * 65536 + lo)
    ELSE IF ~IsDigit(Head(b)) THEN Err
    ELSE LET low == lo * 10 + DigitVal(Head(b))
         IN  WrappingAccumulate(Tail(b), (hi * 10 + low \div 65536) % 65536, low % 65536)

\* to_i32 with wrapping arithmetic: the number modulo 2^32
to_i32_Wrapping(b) ==
    IF b = <<>> THEN Err
    ELSE IF b \in {<<"+">>, <<"-">>} THEN Err
    ELSE IF Head(b) = "+" THEN WrappingAccumulate(Tail(b), 0, 0)
    ELSE IF Head(b) = "-"
    THEN LET r == WrappingAccumulate(Tail(b), 0, 0)
         IN  IF r.ok /\ r.v # -I32Max - 1 THEN Ok(-r.v) ELSE r
    ELSE WrappingAccumulate(b, 0, 0)

\* fn to_i32(s: &str) -> Result<i32, ParseIntError>: s.parse::<i32>()
to_i32(b) ==
    IF b = <<>> THEN Err
    ELSE IF b \in {<<"+">>, <<"-">>} THEN Err
    ELSE IF Head(b) = "+" THEN AccumulateUp(Tail(b), 0, I32Max)
    ELSE IF Head(b) = "-" THEN AccumulateDown(Tail(b), 0)
    ELSE AccumulateUp(b, 0, I32Max)

\* caps[n].parse::<u8>()
to_u8(b) ==
    IF b = <<>> THEN Err
    ELSE IF b \in {<<"+">>} THEN Err
    ELSE IF Head(b) = "+" THEN AccumulateUp(Tail(b), 0, U8Max)
    ELSE AccumulateUp(b, 0, U8Max)

\* fn buf_to_i32(s: &[u8])
buf_to_i32(b) == to_i32(b)

DotsOf(b) == {i \in DOMAIN b : b[i] = "."}
FirstDot(b) == CHOOSE i \in DotsOf(b) : \A j \in DotsOf(b) : i <= j
LastDot(b) == CHOOSE i \in DotsOf(b) : \A j \in DotsOf(b) : j <= i

\* Regex ^(\d+)\.(\d{1,2})\.(\d{1,2})$ of Date::from_str: the three captures,
\* or <<>> when the text does not match
DateCaptures(b) ==
    IF Cardinality(DotsOf(b)) # 2 THEN <<>>
    ELSE LET year == SubSeq(b, 1, FirstDot(b) - 1)
             month == SubSeq(b, FirstDot(b) + 1, LastDot(b) - 1)
             day == SubSeq(b, LastDot(b) + 1, Len(b))
         IN  IF /\ year # <<>> /\ IsDigits(year)
                /\ Len(month) \in 1..2 /\ IsDigits(month)
                /\ Len(day) \in 1..2 /\ IsDigits(day)
             THEN <<year, month, day>>
             ELSE <<>>

\* impl FromStr for Date
Date_from_str(b) ==
    LET caps == DateCaptures(b)
    IN  IF caps = <<>> THEN Err
        ELSE LET year == to_i32(caps[1])
                 month == to_u8(caps[2])
                 day == to_u8(caps[3])
             IN  IF ~year.ok THEN Err
                 ELSE IF ~month.ok THEN Err
                 ELSE IF ~day.ok THEN Err
                 ELSE Ok(<<year.v, month.v, day.v>>)

\* a text of the shape [+-]? digit{minBefore,} "." digit+ cut into sign,
\* digits before the dot and digits after it, or <<>> when it has another shape
FloatParts(b, minBefore) ==
    LET sign == IF b # <<>> /\ Head(b) \in {"+", "-"} THEN <<Head(b)>> ELSE <<>>
        rest == SubSeq(b, Len(sign) + 1, Len(b))
    IN  IF Cardinality(DotsOf(rest)) # 1 THEN <<>>
        ELSE LET before_dot == SubSeq(rest, 1, FirstDot(rest) - 1)
                 after_dot == SubSeq(rest, FirstDot(rest) + 1, Len(rest))
             IN  IF /\ IsDigits(before_dot) /\ Len(before_dot) >= minBefore
                    /\ after_dot # <<>> /\ IsDigits(after_dot)
                 THEN <<sign, before_dot, after_dot>>
                 ELSE <<>>

\* the regex with \d+ in front of the dot
FloatCaptures_NeedsIntPart(b) == FloatParts(b, 1)

\* Regex ^([+-]?)(\d*)\.(\d+)$ of parse_float: the three captures, or <<>>
FloatCaptures(b) == FloatParts(b, 0)

\* fn parse_identifier / parse_identifier_v
parse_identifier(b) == KeyIdentifier(b)
parse_identifier_v(b) == Into(parse_identifier(b))

\* fn parse_quoted_str / parse_quoted_str_v
parse_quoted_str(b) == KeyString(b)
parse_quoted_str_v(b) == Into(parse_quoted_str(b))

\* fn parse_int / parse_int_v
parse_int(b) ==
    LET int == buf_to_i32(b)
    IN  IF int.ok THEN Ok(KeyInteger(int.v)) ELSE Err
parse_int_v(b) ==
    LET k == parse_int(b)
    IN  IF k.ok THEN Ok(Into(k.v)) ELSE Err

\* fn parse_float: format!("{}{}.{}", sign, before_dot, after_dot).parse::<f32>()
\* succeeds on every text of that shape
parse_float(b) ==
    LET caps == FloatCaptures(b)
    IN  IF caps = <<>> THEN Err
        ELSE Ok(ValFloat((IF caps[1] = <<"-">> THEN <<"-">> ELSE <<>>)
                          \o caps[2] \o <<".">> \o caps[3]))

\* fn parse_bool
parse_bool(b) ==
    CASE b = <<"y", "e", "s">> -> Ok(ValBool(TRUE))
      [] b = <<"n", "o">> -> Ok(ValBool(FALSE))
      [] OTHER -> Err

\* fn parse_date / parse_date_v
parse_date(b) ==
    LET date == Date_from_str(b)
    IN  IF date.ok THEN Ok(KeyDate(date.v[1], date.v[2], date.v[3])) ELSE Err
parse_date_v(b) ==
    LET k == parse_date(b)
    IN  IF k.ok THEN Ok(Into(k.v)) ELSE Err

\* the key cascade without its date step
KeyCascade_NoDate(b) ==
    LET int == parse_int(b)
    IN  IF int.ok THEN int.v ELSE parse_identifier(b)

\* parse_key, the arm LexerToken::Untyped(b)
KeyCascade(b) ==
    LET int == parse_int(b)
        date == parse_date(b)
    IN  IF int.ok THEN int.v
        ELSE IF date.ok THEN date.v
        ELSE parse_identifier(b)

\* parse_value, the arm LexerToken::Untyped(b)
ValueCascade(b) ==
    LET int == parse_int_v(b)
        float == parse_float(b)
        bool == parse_bool(b)
        date == parse_date_v(b)
    IN  IF int.ok THEN int.v
        ELSE IF float.ok THEN float.v
        ELSE IF bool.ok THEN bool.v
        ELSE IF date.ok THEN date.v
        ELSE parse_identifier_v(b)

(***************************************************************************)
(* Tokenizer::tokenize, one action per arm of the loop body.               *)
(***************************************************************************)
\* &self.buf[s..e]: defined when s <= e <= len, a panic otherwise
SliceOk(s, e) == s <= e /\ e <= Len(buf)
Slice(s, e) == SubSeq(buf, s + 1, e)

chr == buf[pos + 1]

Scanning == tstate = "scan" /\ pos < Len(buf)

\* buf[untyped_start.take().unwrap()..e] can be taken: unwrap of None and a
\* range that is not inside the buffer both panic
RunOk(e) == is_some(untyped_start) /\ SliceOk(unwrap(untyped_start), e)

\* LexerToken::Untyped(&self.buf[untyped_start.take().unwrap()..e])
PendingRun(e) == Untyped(Slice(unwrap(untyped_start), e))

\* the test without its is_some() half
HasPendingRun_NoIsSome == pos # 0

\* if untyped_start.is_some() && pos != 0
HasPendingRun == is_some(untyped_start) /\ pos # 0

TokenizePanic ==
    /\ tstate' = "panic"
    /\ UNCHANGED <<buf, pos, untyped_start, in_quote, in_comment, tokens>>

\* the comment ends at any whitespace byte
SkipComment_EndsAtWhitespace ==
    /\ Scanning
    /\ in_comment
    /\ in_comment' = ~is_whitespace(chr)
    /\ pos' = pos + 1
    /\ UNCHANGED <<buf, untyped_start, in_quote, tstate, tokens>>
    /\ UNCHANGED <<parseVars, callVars>>

\* if in_comment { if chr == &b'\n' { in_comment = false; } continue; }
SkipComment ==
    /\ Scanning
    /\ in_comment
    /\ in_comment' = (chr # "\n")
    /\ pos' = pos + 1
    /\ UNCHANGED <<buf, untyped_start, in_quote, tstate, tokens>>
    /\ UNCHANGED <<parseVars, callVars>>

\* the arm with unwrap() in place of take().unwrap(): the run stays pending
CloseQuote_KeepsRun ==
    /\ Scanning
    /\ ~in_comment
    /\ in_quote
    /\ TryFrom(chr) = Quote
    /\ IF HasPendingRun /\ ~RunOk(pos)
       THEN TokenizePanic
       ELSE /\ tokens' = tokens \o
                  <<IF HasPendingRun THEN PendingRun(pos) ELSE Untyped(<<>>), Quote>>
            /\ in_quote' = ~in_quote
            /\ pos' = pos + 1
            /\ UNCHANGED <<buf, untyped_start, in_comment, tstate>>
    /\ UNCHANGED <<parseVars, callVars>>

\* Ok(t), in_quote, t is Quote: push the quoted run (or an empty string),
\* leave quote mode, push the Quote
CloseQuote ==
    /\ Scanning
    /\ ~in_comment
    /\ in_quote
    /\ TryFrom(chr) = Quote
    /\ IF HasPendingRun /\ ~RunOk(pos)
       THEN TokenizePanic
       ELSE /\ tokens' = tokens \o
                  <<IF HasPendingRun THEN PendingRun(pos) ELSE Untyped(<<>>), Quote>>
            /\ untyped_start' = IF HasPendingRun THEN None ELSE untyped_start
            /\ in_quote' = ~in_quote
            /\ pos' = pos + 1
            /\ UNCHANGED <<buf, in_comment, tstate>>
    /\ UNCHANGED <<parseVars, callVars>>

\* the arm without its "continue": the punctuation token is pushed
QuotedPunctuation_Pushed ==
    /\ Scanning
    /\ ~in_comment
    /\ in_quote
    /\ TryFrom(chr) \notin {NoToken, Quote}
    /\ tokens' = Append(tokens, TryFrom(chr))
    /\ pos' = pos + 1
    /\ UNCHANGED <<buf, untyped_start, in_quote, in_comment, tstate>>
    /\ UNCHANGED <<parseVars, callVars>>

\* the arm with the update of the mode before its "continue"
QuotedPunctuation_StartsComment ==
    /\ Scanning
    /\ ~in_comment
    /\ in_quote
    /\ TryFrom(chr) \notin {NoToken, Quote}
    /\ in_comment' = IF TryFrom(chr) = Comment THEN TRUE ELSE in_comment
    /\ pos' = pos + 1
    /\ UNCHANGED <<buf, untyped_start, in_quote, tstate, tokens>>
    /\ UNCHANGED <<parseVars, callVars>>

\* Ok(t), in_quote, t is not Quote: continue
QuotedPunctuation ==
    /\ Scanning
    /\ ~in_comment
    /\ in_quote
    /\ TryFrom(chr) \notin {NoToken, Quote}
    /\ pos' = pos + 1
    /\ UNCHANGED <<buf, untyped_start, in_quote, in_comment, tstate, tokens>>
    /\ UNCHANGED <<parseVars, callVars>>

\* Ok(t), not in_quote: push the pending run, update the mode, push t
Punctuation ==
    /\ Scanning
    /\ ~in_comment
    /\ ~in_quote
    /\ TryFrom(chr) # NoToken
    /\ IF HasPendingRun /\ ~RunOk(pos)
       THEN TokenizePanic
       ELSE /\ tokens' = tokens \o
                  (IF HasPendingRun THEN <<PendingRun(pos)>> ELSE <<>>) \o <<TryFrom(chr)>>
            /\ untyped_start' = IF HasPendingRun THEN None ELSE untyped_start
            /\ in_quote' = IF TryFrom(chr) = Quote THEN ~in_quote ELSE in_quote
            /\ in_comment' = IF TryFrom(chr) = Comment THEN TRUE ELSE in_comment
            /\ pos' = pos + 1
            /\ UNCHANGED <<buf, tstate>>
    /\ UNCHANGED <<parseVars, callVars>>

\* the arm that forgets the pending run without pushing it
Whitespace_DropsRun ==
    /\ Scanning
    /\ ~in_comment
    /\ TryFrom(chr) = NoToken
    /\ ~in_quote /\ is_whitespace(chr)
    /\ untyped_start' = None
    /\ pos' = pos + 1
    /\ UNCHANGED <<buf, in_quote, in_comment, tstate, tokens>>
    /\ UNCHANGED <<parseVars, callVars>>

\* Err(_), !in_quote && is_whitespace(chr): push the pending run
Whitespace ==
    /\ Scanning
    /\ ~in_comment
    /\ TryFrom(chr) = NoToken
    /\ ~in_quote /\ is_whitespace(chr)
    /\ IF is_some(untyped_start) /\ ~RunOk(pos)
       THEN TokenizePanic
       ELSE /\ tokens' = tokens \o
                  (IF is_some(untyped_start) THEN <<PendingRun(pos)>> ELSE <<>>)
            /\ untyped_start' = None
            /\ pos' = pos + 1
            /\ UNCHANGED <<buf, in_quote, in_comment, tstate>>
    /\ UNCHANGED <<parseVars, callVars>>

\* Err(_), otherwise: else if untyped_start.is_none() { untyped_start = Some(pos) }
Content ==
    /\ Scanning
    /\ ~in_comment
    /\ TryFrom(chr) = NoToken
    /\ ~(~in_quote /\ is_whitespace(chr))
    /\ untyped_start' = IF is_some(untyped_start) THEN untyped_start ELSE Some(pos)
    /\ pos' = pos + 1
    /\ UNCHANGED <<buf, in_quote, in_comment, tstate, tokens>>
    /\ UNCHANGED <<parseVars, callVars>>

\* End of Input: push the remaining bytes, buf[untyped_start..], and return
EndOfInput ==
    /\ tstate = "scan"
    /\ pos = Len(buf)
    /\ IF is_some(untyped_start) /\ ~RunOk(Len(buf))
       THEN TokenizePanic
       ELSE /\ tokens' = tokens \o
                  (IF is_some(untyped_start) THEN <<PendingRun(Len(buf))>> ELSE <<>>)
            /\ untyped_start' = None
            /\ tstate' = "done"
            /\ UNCHANGED <<buf, pos, in_quote, in_comment>>
    /\ UNCHANGED <<parseVars, callVars>>

(***************************************************************************)
(* The Parser (src/parser.rs).  The recursion of parse_value,              *)
(* parse_collection, parse_dict and parse_list is an explicit stack of     *)
(* frames; a frame holds the locals of its function and pc, the place      *)
(* where it continues:                                                     *)
(*   parse, parse_dict:  "loop" -> "equals" -> "value" -> "got" -> "loop"  *)
(*   parse_list:         "loop" -> "value" -> "got" -> "loop"              *)
(*   parse_collection:   "start" -> "value" -> "got" -> "ret"              *)
(* At "value" the frame calls parse_value, at "got" it has its Result in   *)
(* ret.  A panic (index out of bounds, arithmetic overflow) ends the run.  *)
(***************************************************************************)
Frame(fn, pc) ==
    [fn |-> fn, pc |-> pc, dict |-> EmptyMap, list |-> <<>>, key |-> NoKey,
     old_pos |-> 0, first |-> NoVal]

NoRet == [st |-> "none", val |-> NoVal]
RetOk(value) == [st |-> "ok", val |-> value]
RetErr(kind) == [st |-> kind, val |-> NoVal]

Outcome(st, value, err) == [st |-> st, val |-> value, err |-> err]

top == stack[Len(stack)]
Pop == SubSeq(stack, 1, Len(stack) - 1)
SetTop(frame) == [stack EXCEPT ![Len(stack)] = frame]

Running == outcome.st = "running" /\ stack # <<>>
At(fn, pc) == Running /\ top.fn = fn /\ top.pc = pc

\* self.tokens[self.position] is inside the vector
InBounds(p) == p < Len(tokens)
TokenAt(p) == tokens[p + 1]

ParserPanic ==
    /\ outcome' = Outcome("panic", NoVal, "panic")
    /\ UNCHANGED <<position, current_indent, stack, ret>>

\* self.position += 2 after the Untyped of a quoted string
AfterQuoted(p) == p + 2

\* the quoted text put through the key cascade
QuotedKey_Cascade(b) == KeyCascade(b)

\* parse_key, the arm LexerToken::Quote: self.parse_quoted_str(token.as_untyped()?)
QuotedKey(b) == parse_quoted_str(b)

\* parse_value, the arm LexerToken::Quote: self.parse_quoted_str_v(token.as_untyped()?)
QuotedValue(b) == Into(QuotedKey(b))

\* parse_key that moves the cursor only in the arms Quote and Untyped
ParseKey_InvalidTokenStays(p) ==
    LET token == TokenAt(p)
    IN  CASE token.k = "Quote" ->
                IF ~InBounds(p + 1)
                THEN [st |-> "panic", key |-> NoKey, pos |-> p + 1]
                ELSE IF TokenAt(p + 1).k # "Untyped"
                THEN [st |-> "Msg", key |-> NoKey, pos |-> p + 1]
                ELSE [st |-> "ok", key |-> QuotedKey(TokenAt(p + 1).b),
                      pos |-> AfterQuoted(p + 1)]
          [] token.k = "Untyped" ->
                [st |-> "ok", key |-> KeyCascade(token.b), pos |-> p + 1]
          [] OTHER ->
                [st |-> "InvalidToken", key |-> NoKey, pos |-> p]

\* fn parse_key, called with self.position = p < tokens.len(): the Result
\* (st is "ok", "InvalidToken", "Msg" for the error of as_untyped, or "panic")
\* and the position it leaves
ParseKey(p) ==
    LET token == TokenAt(p)
    IN  CASE token.k = "Quote" ->
                IF ~InBounds(p + 1)
                THEN [st |-> "panic", key |-> NoKey, pos |-> p + 1]
                ELSE IF TokenAt(p + 1).k # "Untyped"
                THEN [st |-> "Msg", key |-> NoKey, pos |-> p + 1]
                ELSE [st |-> "ok", key |-> QuotedKey(TokenAt(p + 1).b),
                      pos |-> AfterQuoted(p + 1)]
          [] token.k = "Untyped" ->
                [st |-> "ok", key |-> KeyCascade(token.b), pos |-> p + 1]
          [] OTHER ->
                [st |-> "InvalidToken", key |-> NoKey, pos |-> p + 1]

\* fn parse_value on a token that is not LeftCurly, with p < tokens.len()
ParseScalar(p) ==
    LET token == TokenAt(p)
    IN  CASE token.k = "Quote" ->
                IF ~InBounds(p + 1)
                THEN [st |-> "panic", val |-> NoVal, pos |-> p + 1]
                ELSE IF TokenAt(p + 1).k # "Untyped"
                THEN [st |-> "Msg", val |-> NoVal, pos |-> p + 1]
                ELSE [st |-> "ok", val |-> QuotedValue(TokenAt(p + 1).b),
                      pos |-> AfterQuoted(p + 1)]
          [] token.k = "Untyped" ->
                [st |-> "ok", val |-> ValueCascade(token.b), pos |-> p + 1]
          [] OTHER ->
                [st |-> "InvalidToken", val |-> NoVal, pos |-> p + 1]

\* Parser::parse, while self.position < self.tokens.len() is over: Ok(ClVal::Dict(dict))
ParseReturn ==
    /\ At("parse", "loop")
    /\ ~InBounds(position)
    /\ outcome' = Outcome("ok", ValDict(top.dict), "none")
    /\ stack' = <<>>
    /\ UNCHANGED <<position, current_indent, ret, tokens>>
    /\ UNCHANGED <<tokVars, callVars>>

\* parse with the InvalidToken arm of parse_dict: the token is skipped
ParseKeyStep_Recovers ==
    /\ At("parse", "loop")
    /\ InBounds(position)
    /\ LET r == ParseKey(position)
       IN  CASE r.st = "panic" -> ParserPanic
             [] r.st = "ok" ->
                   /\ position' = r.pos
                   /\ stack' = SetTop([top EXCEPT !.key = r.key, !.pc = "equals"])
                   /\ UNCHANGED <<current_indent, ret, outcome>>
             [] r.st = "InvalidToken" ->
                   /\ position' = r.pos
                   /\ UNCHANGED <<current_indent, stack, ret, outcome>>
             [] OTHER ->
                   /\ position' = r.pos
                   /\ outcome' = Outcome("err", NoVal, r.st)
                   /\ stack' = <<>>
                   /\ UNCHANGED <<current_indent, ret>>
    /\ UNCHANGED tokens
    /\ UNCHANGED <<tokVars, callVars>>

\* Parser::parse: let key = self.parse_key()?
ParseKeyStep ==
    /\ At("parse", "loop")
    /\ InBounds(position)
    /\ LET r == ParseKey(position)
       IN  CASE r.st = "panic" -> ParserPanic
             [] r.st = "ok" ->
                   /\ position' = r.pos
                   /\ stack' = SetTop([top EXCEPT !.key = r.key, !.pc = "equals"])
                   /\ UNCHANGED <<current_indent, ret, outcome>>
             [] OTHER ->
                   /\ position' = r.pos
                   /\ outcome' = Outcome("err", NoVal, r.st)
                   /\ stack' = <<>>
                   /\ UNCHANGED <<current_indent, ret>>
    /\ UNCHANGED tokens
    /\ UNCHANGED <<tokVars, callVars>>

\* the token after the key is skipped whatever it is
EqualsStep_Always ==
    IF ~InBounds(position)
    THEN ParserPanic
    ELSE /\ position' = position + 1
         /\ stack' = SetTop([top EXCEPT !.pc = "value"])
         /\ UNCHANGED <<current_indent, ret, outcome>>

\* let token = &self.tokens[self.position]; if token.is_equals() { self.position += 1 }
EqualsStep ==
    IF ~InBounds(position)
    THEN ParserPanic
    ELSE /\ position' = IF is_equals(TokenAt(position)) THEN position + 1 ELSE position
         /\ stack' = SetTop([top EXCEPT !.pc = "value"])
         /\ UNCHANGED <<current_indent, ret, outcome>>

\* Parser::parse: the optional equals
ParseEquals ==
    /\ At("parse", "equals")
    /\ EqualsStep
    /\ UNCHANGED tokens
    /\ UNCHANGED <<tokVars, callVars>>

\* Parser::parse: let value = self.parse_value()?; dict.insert(key, value)
ParseInsert ==
    /\ At("parse", "got")
    /\ IF ret.st = "ok"
       THEN /\ stack' = SetTop([top EXCEPT !.dict = Insert(top.dict, top.key, ret.val),
                                           !.pc = "loop"])
            /\ UNCHANGED outcome
       ELSE /\ outcome' = Outcome("err", NoVal, ret.st)
            /\ stack' = <<>>
    /\ ret' = NoRet
    /\ UNCHANGED <<position, current_indent, tokens>>
    /\ UNCHANGED <<tokVars, callVars>>

\* fn parse_value, the arms Quote, Untyped and _ (and the panic of the
\* index when no token is left)
ParseValue ==
    /\ Running
    /\ top.pc = "value"
    /\ InBounds(position) => TokenAt(position) # LeftCurly
    /\ IF ~InBounds(position)
       THEN ParserPanic
       ELSE LET r == ParseScalar(position)
            IN  IF r.st = "panic"
                THEN ParserPanic
                ELSE /\ position' = r.pos
                     /\ ret' = [st |-> r.st, val |-> r.val]
                     /\ stack' = SetTop([top EXCEPT !.pc = "got"])
                     /\ UNCHANGED <<current_indent, outcome>>
    /\ UNCHANGED tokens
    /\ UNCHANGED <<tokVars, callVars>>

\* the arm LeftCurly without self.current_indent += 1
ParseValueCollection_NoIncrement ==
    /\ Running
    /\ top.pc = "value"
    /\ InBounds(position)
    /\ TokenAt(position) = LeftCurly
    /\ position' = position + 1
    /\ stack' = Append(SetTop([top EXCEPT !.pc = "got"]), Frame("parse_collection", "start"))
    /\ UNCHANGED <<current_indent, ret, outcome, tokens>>
    /\ UNCHANGED <<tokVars, callVars>>

\* fn parse_value, the arm LeftCurly: self.current_indent += 1; self.parse_collection()?
ParseValueCollection ==
    /\ Running
    /\ top.pc = "value"
    /\ InBounds(position)
    /\ TokenAt(position) = LeftCurly
    /\ position' = position + 1
    /\ current_indent' = current_indent + 1
    /\ stack' = Append(SetTop([top EXCEPT !.pc = "got"]), Frame("parse_collection", "start"))
    /\ UNCHANGED <<ret, outcome, tokens>>
    /\ UNCHANGED <<tokVars, callVars>>

\* the empty collection is a Dict
EmptyCollection_Dict == ValDict(EmptyMap)

\* fn parse_collection: return Ok(ClVal::List(Vec::new()))
EmptyCollection == ValList(<<>>)

\* fn parse_collection: old_pos = self.position and the check for the empty collection
CollectionStart ==
    /\ At("parse_collection", "start")
    /\ IF ~InBounds(position)
       THEN ParserPanic
       ELSE IF TokenAt(position) = RightCurly
       THEN /\ position' = position + 1
            /\ ret' = RetOk(EmptyCollection)
            /\ stack' = Pop
            /\ UNCHANGED <<current_indent, outcome>>
       ELSE /\ stack' = SetTop([top EXCEPT !.old_pos = position, !.pc = "value"])
            /\ UNCHANGED <<position, current_indent, ret, outcome>>
    /\ UNCHANGED tokens
    /\ UNCHANGED <<tokVars, callVars>>

\* the test on the token before the cursor (the last token of the first value)
IsDict_Behind(p) == is_equals(TokenAt(p - 1))

\* fn parse_collection: let token = &self.tokens[self.position]; token.is_equals()
IsDict(p) == is_equals(TokenAt(p))

\* parse_collection that calls parse_dict at the cursor, without the rewind
CollectionDecide_NoRewind ==
    /\ At("parse_collection", "got")
    /\ IF ret.st # "ok"
       THEN /\ stack' = Pop
            /\ UNCHANGED <<position, current_indent, ret, outcome>>
       ELSE IF ~InBounds(position)
       THEN ParserPanic
       ELSE IF IsDict(position)
       THEN /\ stack' = Append(SetTop([top EXCEPT !.first = ret.val, !.pc = "ret"]),
                               Frame("parse_dict", "loop"))
            /\ ret' = NoRet
            /\ UNCHANGED <<position, current_indent, outcome>>
       ELSE /\ stack' = Append(SetTop([top EXCEPT !.first = ret.val, !.pc = "ret"]),
                               [Frame("parse_list", "loop") EXCEPT !.list = <<ret.val>>])
            /\ ret' = NoRet
            /\ UNCHANGED <<position, current_indent, outcome>>
    /\ UNCHANGED tokens
    /\ UNCHANGED <<tokVars, callVars>>

\* fn parse_collection: let value = self.parse_value()?, is_dict, and the
\* call of parse_dict (after the rewind) or parse_list(first)
CollectionDecide ==
    /\ At("parse_collection", "got")
    /\ IF ret.st # "ok"
       THEN /\ stack' = Pop
            /\ UNCHANGED <<position, current_indent, ret, outcome>>
       ELSE IF ~InBounds(position)
       THEN ParserPanic
       ELSE IF IsDict(position)
       THEN /\ position' = top.old_pos
            /\ stack' = Append(SetTop([top EXCEPT !.first = ret.val, !.pc = "ret"]),
                               Frame("parse_dict", "loop"))
            /\ ret' = NoRet
            /\ UNCHANGED <<current_indent, outcome>>
       ELSE /\ stack' = Append(SetTop([top EXCEPT !.first = ret.val, !.pc = "ret"]),
                               [Frame("parse_list", "loop") EXCEPT !.list = <<ret.val>>])
            /\ ret' = NoRet
            /\ UNCHANGED <<position, current_indent, outcome>>
    /\ UNCHANGED tokens
    /\ UNCHANGED <<tokVars, callVars>>

\* fn parse_collection: the Result of parse_dict / parse_list is its Result
CollectionReturn ==
    /\ At("parse_collection", "ret")
    /\ stack' = Pop
    /\ UNCHANGED <<position, current_indent, ret, outcome, tokens>>
    /\ UNCHANGED <<tokVars, callVars>>

\* u32::MAX as the 32-bit pattern 0xFFFFFFFF (the numbers here are 32 bits wide)
U32MaxPattern == -1

\* self.position += 1; self.current_indent -= 1; break, with value returned:
\* the subtraction on 0 panics in a build with overflow checks and wraps
\* in a build without
CloseCollection(value) ==
    \/ /\ current_indent = 0
       /\ ParserPanic
    \/ /\ position' = position + 1
       /\ current_indent' = IF current_indent = 0 THEN U32MaxPattern ELSE current_indent - 1
       /\ ret' = RetOk(value)
       /\ stack' = Pop
       /\ UNCHANGED outcome

\* after an element: end of the tokens (break), RightCurly (break),
\* an optional Comma, or the next element; value is what a break returns
AfterElement(frame, value) ==
    IF ~InBounds(position)
    THEN /\ ret' = RetOk(value)
         /\ stack' = Pop
         /\ UNCHANGED <<position, current_indent, outcome>>
    ELSE IF TokenAt(position) = RightCurly
    THEN CloseCollection(value)
    ELSE /\ position' = IF TokenAt(position) = Comma THEN position + 1 ELSE position
         /\ stack' = SetTop([frame EXCEPT !.pc = "loop"])
         /\ ret' = NoRet
         /\ UNCHANGED <<current_indent, outcome>>

\* fn parse_dict, the loop is over: Ok(ClVal::Dict(dict))
DictReturn ==
    /\ At("parse_dict", "loop")
    /\ ~InBounds(position)
    /\ ret' = RetOk(ValDict(top.dict))
    /\ stack' = Pop
    /\ UNCHANGED <<position, current_indent, outcome, tokens>>
    /\ UNCHANGED <<tokVars, callVars>>

\* fn parse_dict: match self.parse_key(), InvalidToken => continue
DictKeyStep ==
    /\ At("parse_dict", "loop")
    /\ InBounds(position)
    /\ LET r == ParseKey(position)
       IN  CASE r.st = "panic" -> ParserPanic
             [] r.st = "ok" ->
                   /\ position' = r.pos
                   /\ stack' = SetTop([top EXCEPT !.key = r.key, !.pc = "equals"])
                   /\ UNCHANGED <<current_indent, ret, outcome>>
             [] r.st = "InvalidToken" ->
                   /\ position' = r.pos
                   /\ UNCHANGED <<current_indent, stack, ret, outcome>>
             [] OTHER ->
                   /\ position' = r.pos
                   /\ ret' = RetErr(r.st)
                   /\ stack' = Pop
                   /\ UNCHANGED <<current_indent, outcome>>
    /\ UNCHANGED tokens
    /\ UNCHANGED <<tokVars, callVars>>

\* fn parse_dict: the optional equals
DictEquals ==
    /\ At("parse_dict", "equals")
    /\ EqualsStep
    /\ UNCHANGED tokens
    /\ UNCHANGED <<tokVars, callVars>>

\* parse_dict that recovers from every error of parse_value
DictInsert_RecoversAll ==
    /\ At("parse_dict", "got")
    /\ CASE ret.st = "ok" ->
              LET dict == Insert(top.dict, top.key, ret.val)
              IN  AfterElement([top EXCEPT !.dict = dict], ValDict(dict))
         [] OTHER ->
              /\ stack' = SetTop([top EXCEPT !.pc = "loop"])
              /\ ret' = NoRet
              /\ UNCHANGED <<position, current_indent, outcome>>
    /\ UNCHANGED tokens
    /\ UNCHANGED <<tokVars, callVars>>

\* fn parse_dict: match self.parse_value(), dict.insert(key, value), the peek
DictInsert ==
    /\ At("parse_dict", "got")
    /\ CASE ret.st = "ok" ->
              LET dict == Insert(top.dict, top.key, ret.val)
              IN  AfterElement([top EXCEPT !.dict = dict], ValDict(dict))
         [] ret.st = "InvalidToken" ->
              /\ stack' = SetTop([top EXCEPT !.pc = "loop"])
              /\ ret' = NoRet
              /\ UNCHANGED <<position, current_indent, outcome>>
         [] OTHER ->
              /\ stack' = Pop
              /\ UNCHANGED <<position, current_indent, ret, outcome>>
    /\ UNCHANGED tokens
    /\ UNCHANGED <<tokVars, callVars>>

\* fn parse_list, the test of the loop: the next parse_value, or Ok(ClVal::List(list))
ListLoop ==
    /\ At("parse_list", "loop")
    /\ IF InBounds(position)
       THEN /\ stack' = SetTop([top EXCEPT !.pc = "value"])
            /\ UNCHANGED ret
       ELSE /\ ret' = RetOk(ValList(top.list))
            /\ stack' = Pop
    /\ UNCHANGED <<position, current_indent, outcome, tokens>>
    /\ UNCHANGED <<tokVars, callVars>>

\* parse_list that returns every error of parse_value (as with ?)
ListPush_Aborts ==
    /\ At("parse_list", "got")
    /\ CASE ret.st = "ok" ->
              LET list == Append(top.list, ret.val)
              IN  AfterElement([top EXCEPT !.list = list], ValList(list))
         [] OTHER ->
              /\ stack' = Pop
              /\ UNCHANGED <<position, current_indent, ret, outcome>>
    /\ UNCHANGED tokens
    /\ UNCHANGED <<tokVars, callVars>>

\* fn parse_list: match self.parse_value(), list.push(value), the peek
ListPush ==
    /\ At("parse_list", "got")
    /\ CASE ret.st = "ok" ->
              LET list == Append(top.list, ret.val)
              IN  AfterElement([top EXCEPT !.list = list], ValList(list))
         [] ret.st = "InvalidToken" ->
              /\ stack' = SetTop([top EXCEPT !.pc = "loop"])
              /\ ret' = NoRet
              /\ UNCHANGED <<position, current_indent, outcome>>
         [] OTHER ->
              /\ stack' = Pop
              /\ UNCHANGED <<position, current_indent, ret, outcome>>
    /\ UNCHANGED tokens
    /\ UNCHANGED <<tokVars, callVars>>

Next ==
    \/ ParseReturn
    \/ ParseKeyStep
    \/ ParseEquals
    \/ ParseInsert
    \/ ParseValue
    \/ ParseValueCollection
    \/ CollectionStart
    \/ CollectionDecide
    \/ CollectionReturn
    \/ DictReturn
    \/ DictKeyStep
    \/ DictEquals
    \/ DictInsert
    \/ ListLoop
    \/ ListPush

TokenizerIdle ==
    /\ buf = <<>>
    /\ pos = 0
    /\ untyped_start = None
    /\ in_quote = FALSE
    /\ in_comment = FALSE
    /\ tstate = "idle"

\* Parser::new(tokens) and the call of parse
ParserStart ==
    /\ position = 0
    /\ current_indent = 0
    /\ stack = <<Frame("parse", "loop")>>
    /\ ret = NoRet
    /\ outcome = Outcome("running", NoVal, "none")

(***************************************************************************)
(* The parser on its own (Parser::new is public): every token vector of at *)
(* most MaxTokens tokens over TokenAlphabet, at top level and after        *)
(* "a = {", and the vectors of the unit tests of src/parser.rs and of the  *)
(* documented examples.                                                    *)
(***************************************************************************)
Ua == Untyped(<<"a">>)
Ub == Untyped(<<"b">>)
Uc == Untyped(<<"c">>)
U1 == Untyped(<<"1">>)
U2 == Untyped(<<"2">>)
U3 == Untyped(<<"3">>)

TokenAlphabet == {Ua, U1, Equals, Quote, LeftCurly, RightCurly, Comma, LeftParanthesis}

Tokens_list == <<Ua, Equals, LeftCurly, U1, U2, Comma, U3, RightCurly>>
Tokens_dict == <<Ua, Equals, LeftCurly, Ua, Equals, U1, Comma, Ub, Equals, U2, RightCurly>>
Tokens_empty == <<Ua, Equals, LeftCurly, RightCurly>>
Tokens_list1 == <<Ua, Equals, LeftCurly, U1, RightCurly, Ub, Equals, U2>>
Tokens_list2 == <<Ua, Equals, LeftCurly, U1, U2, RightCurly, Ub, Equals, U2>>
Tokens_dict1 == <<Ua, Equals, LeftCurly, Ub, Equals, U1, RightCurly, Uc, Equals, U2>>
Tokens_dictComma == <<Ua, Equals, LeftCurly, Ub, Equals, U1, Comma, RightCurly, Uc, Equals, U2>>
Tokens_string == <<Quote, Ua, Quote, Equals, Quote, Ub, Quote>>
Tokens_duplicate == <<Ua, Equals, U1, Ua, Equals, U2>>
Tokens_recover == <<Ua, Equals, LeftCurly, LeftParanthesis, U1, U2, RightCurly>>
Tokens_notUntyped ==
    <<Ua, Equals, LeftCurly, Ua, LeftCurly, Ub, Equals, Quote, RightCurly, Uc, RightCurly>>
Tokens_noEquals == <<Ua, LeftCurly, U1, U2, RightCurly, Quote, Ub, Quote, Quote, Uc, Quote, Uc, U3>>
Tokens_topComma == <<Ua, Equals, U1, Comma, Ub, Equals, U2>>
Tokens_strayKey == <<Ua, Equals, U1, Ub, Equals, U2, RightCurly, Uc, Equals, U3>>
Tokens_strayValue == <<Ua, Equals, U1, Ub, Equals, Comma, Uc, Equals, U3>>

TestTokens ==
    {Tokens_list, Tokens_dict, Tokens_empty, Tokens_list1, Tokens_list2, Tokens_dict1,
     Tokens_dictComma, Tokens_string, Tokens_duplicate, Tokens_recover,
     Tokens_strayKey, Tokens_strayValue, Tokens_notUntyped, Tokens_noEquals,
     Tokens_topComma}

\* two pairs, at top level (with and without the Equals of each) and as the
\* body of a dict collection, with keys of equal and of different texts
\* (1, 01 and +1 are all the key Integer(1))
PairKeys == {Ua, Ub, U1, Untyped(<<"0", "1">>), Untyped(<<"+", "1">>)}
PairVectors ==
    UNION { { <<k1, Equals, v1, k2, Equals, v2>>,
              <<k1, v1, k2, Equals, v2>>,
              <<k1, Equals, v1, k2, v2>>,
              <<k1, v1, k2, v2>>,
              <<Ua, Equals, LeftCurly, k1, Equals, v1, k2, Equals, v2, RightCurly>> }
            : k1 \in PairKeys, k2 \in PairKeys, v1 \in {U1, Ub}, v2 \in {U2} }

\* a collection of two or three elements, Untyped values or pairs, each
\* two neighbours with or without a Comma between them, and two lists of
\* lists
OptionalComma == {<<>>, <<Comma>>}
ListBodies ==
    UNION { { <<e1>> \o c1 \o <<e2>>,
              <<e1>> \o c1 \o <<e2>> \o c2 \o <<e3>> }
            : e1 \in {Ua, U1}, e2 \in {Ua, U2}, e3 \in {Ub, U1},
              c1 \in OptionalComma, c2 \in OptionalComma }
DictBodies ==
    UNION { { <<k1, Equals, U1>> \o c1 \o <<k2, Equals, U2>>,
              <<k1, Equals, U1>> \o c1 \o <<k2, Equals, U2>> \o c2 \o <<k3, Equals, U3>> }
            : k1 \in {Ua, U1}, k2 \in {Ua, Ub}, k3 \in {Ub, Uc},
              c1 \in OptionalComma, c2 \in OptionalComma }
Tokens_listOfLists ==
    <<Ua, Equals, LeftCurly, LeftCurly, U1, U2, RightCurly,
      LeftCurly, U1, U3, RightCurly, RightCurly>>
Tokens_listOfListsComma ==
    <<Ua, Equals, LeftCurly, LeftCurly, U1, U2, RightCurly, Comma,
      LeftCurly, U1, U3, RightCurly, RightCurly>>
CommaVectors ==
    {<<Ua, Equals, LeftCurly>> \o body \o <<RightCurly>> : body \in ListBodies \cup DictBodies}
        \cup {Tokens_listOfLists, Tokens_listOfListsComma}

\* a vector of at most MaxTokens tokens, alone and as the body of a collection
TokenVectors ==
    SeqsUpTo(TokenAlphabet, MaxTokens)
        \cup {<<Ua, Equals, LeftCurly>> \o body : body \in SeqsUpTo(TokenAlphabet, MaxTokens)}
        \cup TestTokens
        \cup PairVectors
        \cup CommaVectors

Init ==
    /\ tokens \in TokenVectors
    /\ ParserStart
    /\ TokenizerIdle
    /\ NoCall

Spec == Init /\ [][Next]_vars

\* the parser runs to its end: parse is one sequential call, a step that
\* can be taken is taken
SpecTerminates == Spec /\ WF_vars(Next)

(***************************************************************************)
(* The parser on one Untyped slice b in each place a slice can stand: as a *)
(* key and as a value at top level, as the first key and as a value of a   *)
(* dict collection, as an element of a list collection, and between        *)
(* quotes (at top level and as the first key of a dict collection); b is   *)
(* every slice of at most MaxSliceLen bytes over SliceBytes and the slices *)
(* of TestSlices (the documented examples, the ends of the i32 range,      *)
(* texts that are nearly numbers).                                         *)
(***************************************************************************)
SliceBytes == {"1", ".", "-", "y"}

TestSlices ==
    { <<"4", "2">>, <<"4", "2", ".", "5">>, <<"y", "e", "s">>, <<"n", "o">>,
      <<"2", "0", "1", "8", ".", "5", ".", "1", "6">>,
      <<"2", "0", "1", "8", ".", "0", "5", ".", "1", "7">>,
      <<"2", "0", "1", "8", ".", "5", ".", "1", "6", "0">>,
      <<"k", "e", "y">>, <<"y", "e", "s", "s">>, <<"N", "o">>,
      <<"1", "2">>, <<"1", ".", "5">>, <<"1", ".", "1", ".", "1">>,
      <<"1", ".", "1", "2", ".", "3", "4">>, <<"-", "1", ".", "1", ".", "1">>,
      <<"1", ".", ".", "1">>, <<"1", ".", "1", ".">>, <<"+", "7">>, <<"+", ".", "5">>, <<"+">>,
      <<"0", "0", "7">>, <<"1", "e", "3">>, <<"0", "x", "1">>,
      <<"2", "1", "4", "7", "4", "8", "3", "6", "4", "7">>,
      <<"2", "1", "4", "7", "4", "8", "3", "6", "4", "8">>,
      <<"-", "2", "1", "4", "7", "4", "8", "3", "6", "4", "8">>,
      <<"-", "2", "1", "4", "7", "4", "8", "3", "6", "4", "9">>,
      <<"0", "2", "1", "4", "7", "4", "8", "3", "6", "4", "8">>,
      <<"2", "1", "4", "7", "4", "8", "3", "6", "4", "7", ".", "1", ".", "1">>,
      <<"2", "1", "4", "7", "4", "8", "3", "6", "4", "8", ".", "1", ".", "1">>,
      <<"9", "9", "9", "9", "9", "9", "9", "9", "9", "9", "9", ".", "1", "2", ".", "3", "1">>,
      <<"2", "1", "4", "7", "4", "8", "3", "6", "4", "8", ".", "5">>,
      <<"2", "0", "1", "8", ".", "0", ".", "0">>,
      <<"2", "0", "1", "8", ".", "0", "0", ".", "1", "6">>,
      <<"2", "0", "1", "8", ".", "9", "9", ".", "9", "9">> }

Slices == SeqsUpTo(SliceBytes, MaxSliceLen) \cup TestSlices

ClassifyVectors ==
    UNION { { <<Untyped(b), Equals, Ua>>,
              <<Ua, Equals, Untyped(b)>>,
              <<Ua, Equals, LeftCurly, Untyped(b), Equals, Ub, RightCurly>>,
              <<Ua, Equals, LeftCurly, Ub, Equals, Untyped(b), RightCurly>>,
              <<Ua, Equals, LeftCurly, Ub, Untyped(b), RightCurly>>,
              <<Ua, Equals, LeftCurly, Untyped(b), Equals, Ub, Comma>>,
              <<Quote, Untyped(b), Quote, Equals, Ua>>,
              <<Ua, Equals, LeftCurly, Quote, Untyped(b), Quote, Equals, Ub, RightCurly>>,
              <<Ua, Equals, Quote, Untyped(b), Quote>> } : b \in Slices }

InitClassify ==
    /\ tokens \in ClassifyVectors
    /\ ParserStart
    /\ TokenizerIdle
    /\ NoCall

SpecClassify == InitClassify /\ [][Next]_vars

(***************************************************************************)
(* The tokenizer on its own: every buffer of at most MaxBufLen bytes over  *)
(* BufBytes, and the buffers of the unit tests of src/token.rs.            *)
(***************************************************************************)
BufBytes == {"a", " ", "\n", "=", "\"", "{", "#"}

Bytes_player == <<"p", "l", "a", "y", "e", "r", " ", "=", " ", "\"", "A", "A", "A", "\"">>
Bytes_dlc == <<"d", "l", "c", "=", "\"", "R", "i", "g", "h", "t", "s", " ", "o", "f", " ",
               "M", "a", "n", "\"">>
Bytes_date == <<"d", "a", "t", "e", "=", "1", "5", "9", "7", ".", "1", ".", "1">>
Bytes_quoting == <<"k", "e", "y", " ", "=", " ", "\"", "a", " ", "b", ",", "c", "{", "d", "\"">>
Bytes_curly == <<"\"", "{", "a", "b", "c", "\"">>
Bytes_comma == <<"k", "=", "\"", ",", "\"", "\t", "\r", "(", ")", "}">>

TestBuffers == {Bytes_player, Bytes_dlc, Bytes_date, Bytes_quoting, Bytes_curly, Bytes_comma}

Buffers == SeqsUpTo(BufBytes, MaxBufLen) \cup TestBuffers

ParserIdle ==
    /\ position = 0
    /\ current_indent = 0
    /\ stack = <<>>
    /\ ret = NoRet
    /\ outcome = Outcome("idle", NoVal, "none")

\* Tokenizer::new(buf) and the first lines of tokenize
InitTok ==
    /\ buf \in Buffers
    /\ pos = 0
    /\ untyped_start = None
    /\ in_quote = FALSE
    /\ in_comment = FALSE
    /\ tstate = "scan"
    /\ tokens = <<>>
    /\ ParserIdle
    /\ NoCall

NextTok ==
    \/ SkipComment
    \/ CloseQuote
    \/ QuotedPunctuation
    \/ Punctuation
    \/ Whitespace
    \/ Content
    \/ EndOfInput

SpecTok == InitTok /\ [][NextTok]_vars

(***************************************************************************)
(* The function parse of src/lib.rs: the tokenizer on a buffer, then the   *)
(* parser on its tokens.  The buffers are every buffer of at most          *)
(* MaxParseLen bytes over ParseBytes and the buffers of TestDocuments      *)
(* (the documented examples and one document for each construct).          *)
(***************************************************************************)
\* let mut parser = Parser::new(tokenizer.tokenize()); parser.parse()
lib_parse ==
    /\ outcome.st = "idle"
    /\ tstate \in {"done", "panic"}
    /\ IF tstate = "panic"
       THEN /\ outcome' = Outcome("panic", NoVal, "panic")
            /\ UNCHANGED <<position, current_indent, stack, ret>>
       ELSE /\ position' = 0
            /\ current_indent' = 0
            /\ stack' = <<Frame("parse", "loop")>>
            /\ ret' = NoRet
            /\ outcome' = Outcome("running", NoVal, "none")
    /\ UNCHANGED tokens
    /\ UNCHANGED <<tokVars, callVars>>

ParseBytes == {"a", "=", "#", "\n"}

Doc_foo == <<"f", "o", "o", "=", "b", "a", "r">>
Doc_comment ==
    <<"f", "o", "o", "=", "b", "a", "r", " ", "#", "c", "o", "m", "m", "e", "n", "t", "\n",
      "b", "a", "z", "=", "q", "u", "x">>
Doc_commentShort == <<"a", "=", "b", "#", "=", "\n", "b", "=", "a">>
Doc_commentLast == <<"a", "=", "b", "#", "a">>
Doc_duplicate == <<"a", "=", "1", " ", "a", "=", "2">>
Doc_list == <<"k", "e", "y", "=", "{", "1", " ", "2", ",", " ", "3", "}">>
Doc_dict == <<"k", "e", "y", "=", "{", "a", "=", "1", ",", " ", "b", "=", "2", "}">>
Doc_empty == <<"k", "e", "y", "=", "{", "}">>
Doc_open == <<"a", "=", "{", "b", "=", "c", ",">>
Doc_quoted == <<"\"", "a", " ", "b", "\"", "=", "\"", "{", "c", "\"">>
Doc_recover == <<"a", "=", "{", "(", " ", "1", " ", "2", "}">>

TestDocuments ==
    {Doc_foo, Doc_comment, Doc_commentShort, Doc_commentLast, Doc_duplicate, Doc_list,
     Doc_dict, Doc_empty, Doc_open, Doc_quoted, Doc_recover}

Documents == SeqsUpTo(ParseBytes, MaxParseLen) \cup TestDocuments

InitParse ==
    /\ buf \in Documents
    /\ pos = 0
    /\ untyped_start = None
    /\ in_quote = FALSE
    /\ in_comment = FALSE
    /\ tstate = "scan"
    /\ tokens = <<>>
    /\ ParserIdle
    /\ NoCall

NextParse ==
    \/ NextTok
    \/ lib_parse
    \/ Next

SpecParse == InitParse /\ [][NextParse]_vars

(***************************************************************************)
(* The accessors on their own: one call of one accessor on a key of        *)
(* AccessKeys or on a value of AccessValues.                               *)
(***************************************************************************)
AccessKeys ==
    {KeyInteger(42), KeyInteger(0), KeyInteger(-1), KeyInteger(111),
     KeyString(<<"t", "e", "s", "t">>), KeyString(<<>>), KeyString(<<"4", "2">>),
     KeyDate(2018, 5, 16), KeyDate(0, 0, 0),
     KeyIdentifier(<<"t", "e", "s", "t">>), KeyIdentifier(<<"d", "a", "t", "e">>)}

AccessValues ==
    {Into(key) : key \in AccessKeys}
        \cup {ValBool(TRUE), ValBool(FALSE),
              ValFloat(<<"1", "3", ".", "3", "7">>), ValFloat(<<".", "5">>),
              ValList(<<>>), ValList(<<ValInteger(42)>>),
              ValDict(EmptyMap),
              ValDict(KeyString(<<"t", "e", "s", "t">>) :> ValInteger(42))}

InitAccess ==
    /\ call \in [on : {"key"}, fn : {"none"}, self : AccessKeys, key : {NoKey}]
                    \cup [on : {"val"}, fn : {"none"}, self : AccessValues, key : {NoKey}]
    /\ accessed = NotAccessed
    /\ tokens = <<>>
    /\ ParserIdle
    /\ TokenizerIdle

\* one call of the accessor fn of ClKey (on = "key") or ClVal (on = "val")
Called(on, fn, result) ==
    /\ call.on = on
    /\ call.fn = "none"
    /\ call' = [call EXCEPT !.fn = fn]
    /\ accessed' = result
    /\ UNCHANGED <<tokens, tokVars, parseVars>>

\* let value: ClVal = key.into(): the key is consumed, the accessors of
\* ClVal can be called on the value
Key_into ==
    /\ call.on = "key"
    /\ call.fn = "none"
    /\ call' = [on |-> "val", fn |-> "none", self |-> Into(call.self), key |-> call.self]
    /\ UNCHANGED <<accessed, tokens, tokVars, parseVars>>

Key_as_i32 == Called("key", "as_i32", ClKey_as_i32(call.self))
Key_as_string == Called("key", "as_string", ClKey_as_string(call.self))
Key_as_identifier == Called("key", "as_identifier", ClKey_as_identifier(call.self))
Key_as_date == Called("key", "as_date", ClKey_as_date(call.self))
Val_as_i32 == Called("val", "as_i32", ClVal_as_i32(call.self))
Val_as_f32 == Called("val", "as_f32", ClVal_as_f32(call.self))
Val_as_string == Called("val", "as_string", ClVal_as_string(call.self))
Val_as_bool == Called("val", "as_bool", ClVal_as_bool(call.self))
Val_as_list == Called("val", "as_list", ClVal_as_list(call.self))
Val_as_dict == Called("val", "as_dict", ClVal_as_dict(call.self))
Val_as_identifier == Called("val", "as_identifier", ClVal_as_identifier(call.self))
Val_as_date == Called("val", "as_date", ClVal_as_date(call.self))

NextAccess ==
    \/ Key_into
    \/ Key_as_i32
    \/ Key_as_string
    \/ Key_as_identifier
    \/ Key_as_date
    \/ Val_as_i32
    \/ Val_as_f32
    \/ Val_as_string
    \/ Val_as_bool
    \/ Val_as_list
    \/ Val_as_dict
    \/ Val_as_identifier
    \/ Val_as_date

SpecAccess == InitAccess /\ [][NextAccess]_vars

(***************************************************************************)
(* Properties of the tokenizer.                                            *)
(***************************************************************************)
WhitespaceBytes == {" ", "\t", "\r", "\n"}

\* in_quote toggles exactly when a Quote is pushed, so the token at index i
\* was pushed in quote mode iff an odd number of Quote tokens precede it
QuotesBefore(i) == Cardinality({j \in 1..(i - 1) : tokens[j] = Quote})
InQuotedRegion(i) == QuotesBefore(i) % 2 = 1

\* C7: tokenize never fails: no unwrap of None, and the range of the slice
\* it would take for the pending run, untyped_start..pos, lies inside the
\* buffer (untyped_start <= end <= buffer length) in every state.
C7_TokenizeTotal ==
    /\ tstate # "panic"
    /\ pos <= Len(buf)
    /\ is_some(untyped_start) =>
          /\ SliceOk(unwrap(untyped_start), pos)
          /\ SliceOk(unwrap(untyped_start), Len(buf))

\* an unterminated quote whose content was pushed at the end of the input
C7_Witness ==
    /\ tstate = "done"
    /\ in_quote
    /\ tokens # <<>>
    /\ tokens[Len(tokens)].k = "Untyped"
    /\ tokens[Len(tokens)].b # <<>>

\* C8 as stated: no Untyped token at all contains a whitespace byte.
C8_NoWhitespaceInAnyUntyped ==
    \A i \in DOMAIN tokens :
        tokens[i].k = "Untyped" => Range(tokens[i].b) \cap WhitespaceBytes = {}

\* C8 amended: no Untyped token pushed outside a quoted region contains a
\* whitespace byte (inside quotes whitespace is content).
C8_NoWhitespaceOutsideQuotes ==
    \A i \in DOMAIN tokens :
        (tokens[i].k = "Untyped" /\ ~InQuotedRegion(i))
            => Range(tokens[i].b) \cap WhitespaceBytes = {}

\* two runs separated by whitespace only
C8_Witness ==
    /\ tstate = "done"
    /\ Range(buf) \cap WhitespaceBytes # {}
    /\ \E i \in DOMAIN tokens :
          /\ i < Len(tokens)
          /\ tokens[i].k = "Untyped" /\ ~InQuotedRegion(i)
          /\ tokens[i + 1].k = "Untyped" /\ ~InQuotedRegion(i + 1)

\* the k-th smallest element of a finite set of numbers
Kth(S, k) == CHOOSE i \in S : Cardinality({j \in S : j < i}) = k - 1

QuoteBytes == {i \in DOMAIN buf : buf[i] = "\""}
QuoteTokens == {i \in DOMAIN tokens : tokens[i] = Quote}

\* C9: in a buffer without comments every quote byte is a delimiter; the
\* Untyped token pushed before the closing Quote of the k-th quoted region
\* is exactly the bytes between its two quote bytes.
C9_QuotedContentExact ==
    (tstate = "done" /\ "#" \notin Range(buf)) =>
        \A k \in 1..(Cardinality(QuoteBytes) \div 2) :
            /\ Cardinality(QuoteTokens) >= 2 * k
            /\ Kth(QuoteTokens, 2 * k) > 1
            /\ tokens[Kth(QuoteTokens, 2 * k) - 1] =
                  Untyped(SubSeq(buf, Kth(QuoteBytes, 2 * k - 1) + 1,
                                      Kth(QuoteBytes, 2 * k) - 1))

\* C10: in quote mode nothing is pushed before the closing quote (the last
\* token is the opening Quote), and every closing Quote is the third token
\* of a triple Quote, Untyped, Quote.
C10_QuoteTriple ==
    /\ (in_quote /\ tstate = "scan") =>
          (tokens # <<>> /\ tokens[Len(tokens)] = Quote)
    /\ \A i \in DOMAIN tokens :
          (tokens[i] = Quote /\ InQuotedRegion(i)) =>
              /\ i >= 3
              /\ tokens[i - 1].k = "Untyped"
              /\ tokens[i - 2] = Quote
              /\ ~InQuotedRegion(i - 2)

\* a closed quoted region whose content holds a punctuation byte
C10_Witness ==
    /\ tstate = "done"
    /\ \E i \in DOMAIN tokens :
          /\ tokens[i] = Quote /\ InQuotedRegion(i)
          /\ Range(tokens[i - 1].b) \cap {"{", "=", "#", ","} # {}

\* the modes in which the byte at offset i (from 0) of buf is read, told
\* from the bytes before it: q, inside a quoted region; c, after a "#" that
\* stood outside a quoted region and before the byte after the next newline
RECURSIVE ModeAt(_)
ModeAt(i) ==
    IF i = 0 THEN [q |-> FALSE, c |-> FALSE]
    ELSE LET m == ModeAt(i - 1)
             b == buf[i]
         IN  IF m.c THEN [q |-> m.q, c |-> b # "\n"]
             ELSE IF b = "\"" THEN [q |-> ~m.q, c |-> FALSE]
             ELSE IF b = "#" /\ ~m.q THEN [q |-> m.q, c |-> TRUE]
             ELSE m

\* C11: a byte after a "#" that stood outside a quoted region, up to and
\* including the next newline, is discarded: reading it pushes no token,
\* leaves in_quote alone and neither starts nor continues a run of Untyped
\* bytes; the byte after the newline is read outside the comment.
C11_CommentDiscarded ==
    [][ (tstate = "scan" /\ pos < Len(buf) /\ ModeAt(pos).c) =>
            /\ tokens' = tokens
            /\ in_quote' = in_quote
            /\ untyped_start = None /\ untyped_start' = None
            /\ pos' = pos + 1
            /\ in_comment' = (buf[pos + 1] # "\n") ]_vars

\* a comment that holds punctuation, closed by a newline and followed by a
\* run: the tokens are the Comment and the run
C11_Witness ==
    /\ tstate = "done"
    /\ buf = <<"#", "=", "\"", "\n", "a">>
    /\ tokens = <<Comment, Untyped(<<"a">>)>>
    /\ ~in_quote

(***************************************************************************)
(* Properties of the parser: collections.                                  *)
(***************************************************************************)
Ka == KeyIdentifier(<<"a">>)
Kb == KeyIdentifier(<<"b">>)
Kc == KeyIdentifier(<<"c">>)

Finished == outcome.st \in {"ok", "err", "panic"}
Parsed(map) == Outcome("ok", ValDict(map), "none")

\* the vector starts with "key = {" and the collection opened by that brace
\* has just returned value ret.val to the top-level loop, as the value of
\* the first pair
FirstCollectionReturned ==
    /\ Len(tokens) >= 4
    /\ tokens[1].k = "Untyped" /\ tokens[2] = Equals /\ tokens[3] = LeftCurly
    /\ Running
    /\ Len(stack) = 1 /\ top.fn = "parse" /\ top.pc = "got" /\ top.dict = EmptyMap
    /\ ret.st = "ok"

\* the first element of that collection is one Untyped token, a quoted
\* string or an empty collection; AfterFirst is the index in tokens (from 1)
\* of the token immediately after it
SimpleFirst ==
    \/ tokens[4].k = "Untyped"
    \/ tokens[4] = Quote
    \/ tokens[4] = LeftCurly /\ Len(tokens) >= 5 /\ tokens[5] = RightCurly
AfterFirst ==
    CASE tokens[4].k = "Untyped" -> 5
      [] tokens[4] = Quote -> 7
      [] OTHER -> 6

\* C1: a collection is an empty List when the token after the LeftCurly is
\* RightCurly; otherwise it is a Dict if the token immediately after its
\* first value is Equals and a List if not.  {1 2, 3} is List[1,2,3],
\* {a=1, b=2} is Dict{a:1, b:2} and {} is List[].
C1_ClassifiedByFirstElement ==
    /\ FirstCollectionReturned =>
          /\ tokens[4] = RightCurly => ret.val = ValList(<<>>)
          /\ (tokens[4] # RightCurly /\ SimpleFirst) =>
                /\ ret.val.t \in {"Dict", "List"}
                /\ ret.val.t = "Dict" <=> tokens[AfterFirst] = Equals
    /\ (Finished /\ tokens = Tokens_list) =>
          outcome = Parsed(Ka :> ValList(<<ValInteger(1), ValInteger(2), ValInteger(3)>>))
    /\ (Finished /\ tokens = Tokens_dict) =>
          outcome = Parsed(Ka :> ValDict((Ka :> ValInteger(1)) @@ (Kb :> ValInteger(2))))
    /\ (Finished /\ tokens = Tokens_empty) =>
          outcome = Parsed(Ka :> ValList(<<>>))

\* a collection that was rewound and read as a dict of two pairs
C1_Witness ==
    /\ FirstCollectionReturned
    /\ tokens = Tokens_dict
    /\ ret.val = ValDict((Ka :> ValInteger(1)) @@ (Kb :> ValInteger(2)))

\* the number of Untyped tokens in a row from index i (from 1) of tokens
RECURSIVE UntypedRun(_)
UntypedRun(i) ==
    IF i <= Len(tokens) /\ tokens[i].k = "Untyped" THEN 1 + UntypedRun(i + 1) ELSE 0

\* C2: a list of n >= 1 Untyped elements ends at its RightCurly: the List
\* holds exactly the n values in token order and the cursor is just after
\* the RightCurly, so what follows is parsed by the enclosing level
\* (a={1} b=2 is {a: List[1], b: 2}).
C2_ListEndsAtItsBrace ==
    /\ LET n == UntypedRun(4)
       IN  (/\ FirstCollectionReturned
            /\ n >= 1
            /\ Len(tokens) >= 4 + n
            /\ tokens[4 + n] = RightCurly) =>
                /\ ret.val = ValList([i \in 1..n |-> ValueCascade(tokens[3 + i].b)])
                /\ position = 4 + n
    /\ (Finished /\ tokens = Tokens_list1) =>
          outcome = Parsed((Ka :> ValList(<<ValInteger(1)>>)) @@ (Kb :> ValInteger(2)))

\* C3: a dict of one pair ends at its RightCurly, with or without a Comma
\* after the pair: the Dict holds that pair only and the cursor is just
\* after the RightCurly (a={b=1,} c=2 is {a: Dict{b:1}, c: 2}).
C3_DictEndsAtItsBrace ==
    /\ LET close == IF Len(tokens) >= 7 /\ tokens[7] = Comma THEN 8 ELSE 7
       IN  (/\ FirstCollectionReturned
            /\ Len(tokens) >= close
            /\ tokens[4].k = "Untyped" /\ tokens[5] = Equals /\ tokens[6].k = "Untyped"
            /\ tokens[close] = RightCurly) =>
                /\ ret.val = ValDict(KeyCascade(tokens[4].b) :> ValueCascade(tokens[6].b))
                /\ position = close
    /\ (Finished /\ tokens = Tokens_dictComma) =>
          outcome = Parsed((Ka :> ValDict(Kb :> ValInteger(1))) @@ (Kc :> ValInteger(2)))

(***************************************************************************)
(* Properties of parse(buffer): comments.                                  *)
(***************************************************************************)
IdentBytes == {"a", "b", "f", "o", "r", "z", "q", "u", "x"}

\* b is the text of one pair: letters, "=", letters, and spaces after them
IsPairText(b) ==
    \E e \in DOMAIN b, n \in DOMAIN b :
        /\ 1 < e /\ e < n
        /\ b[e] = "="
        /\ \A i \in 1..(e - 1) : b[i] \in IdentBytes
        /\ \A i \in (e + 1)..n : b[i] \in IdentBytes
        /\ \A i \in (n + 1)..Len(b) : b[i] = " "

\* the entry a pair text stands for: Identifier key -> Identifier value
PairKey(b) ==
    LET e == CHOOSE i \in DOMAIN b : b[i] = "="
    IN  KeyIdentifier(SubSeq(b, 1, e - 1))
PairValue(b) ==
    LET e == CHOOSE i \in DOMAIN b : b[i] = "="
        n == CHOOSE i \in DOMAIN b : b[i] \in IdentBytes /\ \A j \in (i + 1)..Len(b) : b[j] = " "
    IN  ValIdentifier(SubSeq(b, e + 1, n))

\* C12: a buffer made of a pair, a "#" comment up to the end of its line
\* and a second pair is read by parse(buffer) as the Dict of the two pairs
\* (foo=bar #comment\nbaz=qux is {foo: bar, baz: qux}).
C12_CommentBetweenPairs ==
    Finished =>
        \A h, n \in DOMAIN buf :
            (/\ h < n
             /\ buf[h] = "#" /\ buf[n] = "\n"
             /\ \A i \in (h + 1)..(n - 1) : buf[i] # "\n"
             /\ IsPairText(SubSeq(buf, 1, h - 1))
             /\ IsPairText(SubSeq(buf, n + 1, Len(buf)))) =>
                outcome = Parsed((PairKey(SubSeq(buf, n + 1, Len(buf)))
                                     :> PairValue(SubSeq(buf, n + 1, Len(buf))))
                                 @@ (PairKey(SubSeq(buf, 1, h - 1))
                                     :> PairValue(SubSeq(buf, 1, h - 1))))

(***************************************************************************)
(* Properties of the parser: results and errors.                           *)
(***************************************************************************)
\* C13: whatever the tokens, parse ends with Ok of a Dict, never with an
\* error or a panic; without tokens the Dict is empty.
C13_AlwaysDict ==
    Finished =>
        /\ outcome.st = "ok"
        /\ outcome.val.t = "Dict"
        /\ tokens = <<>> => outcome.val = ValDict(EmptyMap)

\* the Dict of the pairs key1 : value1 and then key2 : value2, where the
\* later pair wins a key that both have
TwoPairs(key1, value1, key2, value2) == (key2 :> value2) @@ (key1 :> value1)

\* the tokens i..i+5 (from 1) are two pairs of Untyped tokens
PairsAt(i) ==
    /\ tokens[i].k = "Untyped" /\ tokens[i + 1] = Equals /\ tokens[i + 2].k = "Untyped"
    /\ tokens[i + 3].k = "Untyped" /\ tokens[i + 4] = Equals /\ tokens[i + 5].k = "Untyped"
DictOfPairsAt(i) ==
    TwoPairs(KeyCascade(tokens[i].b), ValueCascade(tokens[i + 2].b),
             KeyCascade(tokens[i + 3].b), ValueCascade(tokens[i + 5].b))

\* C14: of two pairs whose keys are equal Key values the Dict holds one
\* entry, with the value of the later pair, at top level and in a dict
\* collection (a=1 a=2 is {a: 2}); pairs with different keys are both kept.
C14_LastWriteWins ==
    /\ (Finished /\ Len(tokens) = 6 /\ PairsAt(1)) =>
          outcome = Parsed(DictOfPairsAt(1))
    /\ (/\ Finished /\ Len(tokens) = 10 /\ PairsAt(4)
        /\ tokens[1] = Ua /\ tokens[2] = Equals /\ tokens[3] = LeftCurly
        /\ tokens[10] = RightCurly) =>
          outcome = Parsed(Ka :> ValDict(DictOfPairsAt(4)))
    /\ (Finished /\ tokens = Tokens_duplicate) => outcome = Parsed(Ka :> ValInteger(2))

\* the keys 01 and +1 in a dict collection: one entry, Integer(1) -> 2
C14_Witness ==
    /\ Finished
    /\ Len(tokens) = 10
    /\ tokens[4] = Untyped(<<"0", "1">>) /\ tokens[6] = Ub
    /\ tokens[7] = Untyped(<<"+", "1">>) /\ tokens[9] = U2
    /\ outcome = Parsed(Ka :> ValDict(KeyInteger(1) :> ValInteger(2)))

\* the vector is "a = { body }" where body is made of Untyped tokens and
\* of "(" tokens (an InvalidToken wherever a value is read), holds at
\* least one "(" and ends with an Untyped
ListWithInvalidTokens ==
    /\ Len(tokens) >= 6
    /\ tokens[1] = Ua /\ tokens[2] = Equals /\ tokens[3] = LeftCurly
    /\ tokens[Len(tokens)] = RightCurly
    /\ \A i \in 4..(Len(tokens) - 1) : tokens[i].k = "Untyped" \/ tokens[i] = LeftParanthesis
    /\ \E i \in 4..(Len(tokens) - 1) : tokens[i] = LeftParanthesis
    /\ tokens[Len(tokens) - 1].k = "Untyped"

IsUntyped(t) == t.k = "Untyped"

\* the values of the Untyped tokens of the body, in order
WellFormedElements ==
    LET body == SelectSeq(SubSeq(tokens, 4, Len(tokens) - 1), IsUntyped)
    IN  [i \in 1..Len(body) |-> ValueCascade(body[i].b)]

\* C15: in a collection an element that is an InvalidToken, the first one
\* or a later one, is skipped: the collection holds the well-formed
\* elements and parse returns Ok (a={( 1 2} holds 1 and 2).
C15_InvalidTokenSkipped ==
    /\ (Finished /\ ListWithInvalidTokens) =>
          outcome = Parsed(Ka :> ValList(WellFormedElements))
    /\ (Finished /\ tokens = Tokens_recover) =>
          outcome = Parsed(Ka :> ValList(<<ValInteger(1), ValInteger(2)>>))

\* the same for an InvalidToken that is not the first element
C15_LaterInvalidTokenSkipped ==
    (Finished /\ ListWithInvalidTokens /\ tokens[4] # LeftParanthesis) =>
        outcome = Parsed(Ka :> ValList(WellFormedElements))

\* the first 3n tokens are n pairs Untyped Equals Untyped
RECURSIVE PairsBefore(_)
PairsBefore(n) ==
    \/ n = 0
    \/ /\ Len(tokens) >= 3 * n
       /\ tokens[3 * n - 2].k = "Untyped" /\ tokens[3 * n - 1] = Equals
       /\ tokens[3 * n].k = "Untyped"
       /\ PairsBefore(n - 1)

\* after n pairs the token in key position is neither Quote nor Untyped
StrayKeyAfter(n) ==
    /\ PairsBefore(n)
    /\ Len(tokens) >= 3 * n + 1
    /\ tokens[3 * n + 1].k \notin {"Quote", "Untyped"}

\* after n pairs and a key, with or without its Equals, the token in value
\* position is neither Quote, Untyped nor LeftCurly
StrayValueAfter(n) ==
    /\ PairsBefore(n)
    /\ Len(tokens) >= 3 * n + 2
    /\ tokens[3 * n + 1].k = "Untyped"
    /\ LET v == IF tokens[3 * n + 2] = Equals THEN 3 * n + 3 ELSE 3 * n + 2
       IN  /\ Len(tokens) >= v
           /\ tokens[v].k \notin {"Quote", "Untyped", "LeftCurly"}

NotUntyped == "Msg"

\* in a collection, a Quote followed by a token that is not Untyped is to
\* be read as a key or as a value
QuoteWithoutUntyped ==
    /\ Running
    /\ Len(stack) > 1
    /\ \/ top.fn = "parse_dict" /\ top.pc = "loop"
       \/ top.pc = "value"
    /\ InBounds(position + 1)
    /\ TokenAt(position) = Quote /\ TokenAt(position + 1).k # "Untyped"

\* a function has returned the error "not an untyped token" to its caller
NotUntypedReturned == Running /\ ret.st = NotUntyped

\* C17: in a collection an error other than InvalidToken is never
\* recovered: a Quote followed by a token that is not Untyped makes the
\* function that reads it return the error "not an untyped token", and
\* every function that gets this error from a call returns it to its own
\* caller, parse to the caller of parse.
C17_OtherErrorsAbort ==
    [][ /\ QuoteWithoutUntyped =>
              /\ ret'.st = NotUntyped
              /\ outcome' = outcome
        /\ NotUntypedReturned =>
              \/ outcome' = Outcome("err", NoVal, NotUntyped)
              \/ /\ ret' = ret
                 /\ Len(stack') = Len(stack) - 1
                 /\ stack' = SubSeq(stack, 1, Len(stack) - 1)
                 /\ outcome' = outcome ]_vars

\* the error of a value of a dict in a list in the top-level dict has come
\* back as the result of parse
C17_Witness ==
    /\ tokens = Tokens_notUntyped
    /\ outcome = Outcome("err", NoVal, NotUntyped)
    /\ position = 8

\* the Untyped tokens of the vector, in order
UntypedTokens == SelectSeq(tokens, IsUntyped)

\* the vector is a sequence of pairs of Untyped tokens, each with or
\* without its Equals: every Equals stands between a key and its value
PairsWithOptionalEquals ==
    /\ \A i \in DOMAIN tokens : tokens[i].k = "Untyped" \/ tokens[i] = Equals
    /\ Len(UntypedTokens) % 2 = 0
    /\ \A i \in DOMAIN tokens :
          tokens[i] = Equals =>
              /\ 1 < i /\ i < Len(tokens)
              /\ tokens[i - 1].k = "Untyped" /\ tokens[i + 1].k = "Untyped"
              /\ Cardinality({j \in 1..(i - 1) : tokens[j].k = "Untyped"}) % 2 = 1

\* the Dict of the pairs (u[1], u[2]), (u[3], u[4]), ... of Untyped tokens,
\* a later pair winning a key: it does not depend on the Equals tokens
DictOfUntyped(u) ==
    LET keyOf(i) == KeyCascade(u[2 * i - 1].b)
        pairs == 1..(Len(u) \div 2)
        last(key) == CHOOSE i \in pairs :
                        /\ keyOf(i) = key
                        /\ \A j \in pairs : keyOf(j) = key => j <= i
    IN  [key \in {keyOf(i) : i \in pairs} |-> ValueCascade(u[2 * last(key)].b)]

\* C20: at top level the Equals of a pair is optional: a sequence of
\* pairs gives the same Dict with and without the Equals of any of its
\* pairs, the Dict of its keys and values alone.
C20_EqualsOptional ==
    /\ (Finished /\ PairsWithOptionalEquals) =>
          outcome = Parsed(DictOfUntyped(UntypedTokens))
    /\ (Finished /\ tokens = Tokens_noEquals) =>
          outcome = Parsed((Ka :> ValList(<<ValInteger(1), ValInteger(2)>>))
                           @@ (KeyString(<<"b">>) :> ValString(<<"c">>))
                           @@ (Kc :> ValInteger(3)))

\* two pairs of the same key, the first without its Equals
C20_Witness ==
    /\ tokens = <<Ua, Ub, Ua, Equals, U2>>
    /\ outcome = Parsed(Ka :> ValInteger(2))

IsNotComma(t) == t # Comma

\* the vector is a sequence of pairs Untyped Equals Untyped, each followed
\* or not by one Comma, and holds at least one Comma
PairsWithCommas ==
    LET pairs == SelectSeq(tokens, IsNotComma)
    IN  /\ Comma \in Range(tokens)
        /\ Len(pairs) % 3 = 0
        /\ \A i \in DOMAIN pairs :
              IF i % 3 = 2 THEN pairs[i] = Equals ELSE pairs[i].k = "Untyped"
        /\ \A i \in DOMAIN tokens :
              tokens[i] = Comma =>
                  /\ i > 1 /\ tokens[i - 1] # Comma
                  /\ Cardinality({j \in 1..(i - 1) : tokens[j] # Comma}) % 3 = 0

\* C21: a top-level pair may be followed by a Comma: the Dict is that of
\* the pairs without the Commas (a=1, b=2 is {a: 1, b: 2}).
C21_TopLevelComma ==
    /\ (Finished /\ PairsWithCommas) =>
          outcome = Parsed(DictOfUntyped(UntypedTokens))
    /\ (Finished /\ tokens = Tokens_topComma) =>
          outcome = Parsed((Ka :> ValInteger(1)) @@ (Kb :> ValInteger(2)))

\* x, a key or a value, is no Date or a Date with month and day in 1..99
\* and a year of the i32 range
DateInRange(x) ==
    x.t = "Date" =>
        /\ x.n[1] >= -I32Max - 1 /\ x.n[1] <= I32Max
        /\ x.n[2] \in 1..99
        /\ x.n[3] \in 1..99

\* C22: every Date made by the parser, as a key or as a value, has a
\* month in 1..99, a day in 1..99 and a year that fits an i32.
C22_DateFieldsInRange ==
    /\ (Running /\ ret.st = "ok") => DateInRange(ret.val)
    /\ Running => DateInRange(top.key)

\* the same with month and day in 0..99
C22_DateFieldsFromZero ==
    /\ (Running /\ ret.st = "ok" /\ ret.val.t = "Date") =>
          /\ ret.val.n[1] <= I32Max
          /\ ret.val.n[2] \in 0..99 /\ ret.val.n[3] \in 0..99
    /\ (Running /\ top.key.t = "Date") =>
          /\ top.key.n[1] <= I32Max
          /\ top.key.n[2] \in 0..99 /\ top.key.n[3] \in 0..99

\* parse has returned a Result or has been aborted by a panic
Returned == outcome.st # "running"

\* the rewind of parse_collection: the first value is there and the token
\* at the cursor is Equals
Rewind ==
    /\ At("parse_collection", "got")
    /\ ret.st = "ok"
    /\ InBounds(position)
    /\ TokenAt(position) = Equals

\* C23: parsing ends on every token vector, with a Result or an abort, and
\* the cursor moves backward only in the rewind of a collection.
C23_Terminates ==
    /\ <>Returned
    /\ [][position' < position => Rewind]_vars

\* parse has returned Ok at the end of a vector with a dict collection
\* (a rewind) and an invalid token skipped in a collection
C23_Witness ==
    /\ outcome.st = "ok"
    /\ position = Len(tokens)
    /\ \E i \in DOMAIN tokens :
          /\ tokens[i] = LeftCurly
          /\ i + 2 \in DOMAIN tokens
          /\ tokens[i + 1].k = "Untyped"
          /\ tokens[i + 2] = Equals
          /\ \E j \in DOMAIN tokens : j > i + 2 /\ tokens[j] = LeftParanthesis

\* the token at the cursor is a Quote that is the last token
QuoteAtEnd == InBounds(position) /\ TokenAt(position) = Quote /\ ~InBounds(position + 1)

\* C24: the token vector is read only at an index below its length, after
\* a key, after a Quote, after a LeftCurly and after the first value of a
\* collection; a lone key, a={ and a={b give a Result and no abort.
C24_IndexInBounds ==
    /\ (At("parse", "equals") \/ At("parse_dict", "equals")) => InBounds(position)
    /\ (Running /\ top.pc = "value") => (InBounds(position) /\ ~QuoteAtEnd)
    /\ (At("parse", "loop") \/ At("parse_dict", "loop")) => ~QuoteAtEnd
    /\ At("parse_collection", "start") => InBounds(position)
    /\ (At("parse_collection", "got") /\ ret.st = "ok") => InBounds(position)
    /\ tokens \in {<<Ua>>, <<Ua, Equals, LeftCurly>>, <<Ua, Equals, LeftCurly, Ua>>} =>
          outcome.st # "panic"

\* the vector is a = { body } and the body without its Commas
InCollection ==
    /\ Len(tokens) >= 5
    /\ SubSeq(tokens, 1, 3) = <<Ua, Equals, LeftCurly>>
    /\ tokens[Len(tokens)] = RightCurly
Body == SubSeq(tokens, 4, Len(tokens) - 1)
BodyElements == SelectSeq(Body, IsNotComma)

\* every Comma of the body stands between two tokens that are no Commas
CommasBetween ==
    /\ Body[1] # Comma
    /\ Body[Len(Body)] # Comma
    /\ \A i \in DOMAIN Body : Body[i] = Comma => Body[i + 1] # Comma

\* the body is two or more Untyped values, with a Comma or none between
\* two neighbours
ListWithOptionalCommas ==
    /\ InCollection
    /\ CommasBetween
    /\ Len(BodyElements) >= 2
    /\ \A i \in DOMAIN BodyElements : BodyElements[i].k = "Untyped"

\* the body is one or more pairs Untyped Equals Untyped, with a Comma or
\* none between two neighbours
DictWithOptionalCommas ==
    /\ InCollection
    /\ CommasBetween
    /\ Len(BodyElements) % 3 = 0
    /\ \A i \in DOMAIN BodyElements :
          IF i % 3 = 2 THEN BodyElements[i] = Equals ELSE BodyElements[i].k = "Untyped"
    /\ \A i \in DOMAIN Body :
          Body[i] = Comma => Cardinality({j \in 1..(i - 1) : Body[j] # Comma}) % 3 = 0

ListOfLists ==
    ValList(<<ValList(<<ValInteger(1), ValInteger(2)>>),
              ValList(<<ValInteger(1), ValInteger(3)>>)>>)

\* C26: in the body of a list or of a dict a Comma between two elements
\* is optional, also behind the first element of a list: the collection
\* is that of the elements alone, with and without the Comma.
C26_CommaOptional ==
    /\ (Finished /\ ListWithOptionalCommas) =>
          outcome = Parsed(Ka :> ValList([i \in DOMAIN BodyElements |->
                                              ValueCascade(BodyElements[i].b)]))
    /\ (Finished /\ DictWithOptionalCommas) =>
          outcome = Parsed(Ka :> ValDict(DictOfUntyped(SelectSeq(Body, IsUntyped))))
    /\ (Finished /\ tokens \in {Tokens_listOfLists, Tokens_listOfListsComma}) =>
          outcome = Parsed(Ka :> ListOfLists)

\* the list 1, 2 with the Comma behind its first element
C26_Witness ==
    /\ tokens = <<Ua, Equals, LeftCurly, U1, Comma, U2, RightCurly>>
    /\ outcome = Parsed(Ka :> ValList(<<ValInteger(1), ValInteger(2)>>))

\* the dict a=1, b=2 with the Comma between its pairs
C26_WitnessDict ==
    /\ tokens = <<Ua, Equals, LeftCurly, Ua, Equals, U1, Comma, Ub, Equals, U2, RightCurly>>
    /\ outcome = Parsed(Ka :> ValDict((Ka :> ValInteger(1)) @@ (Kb :> ValInteger(2))))

\* the number of collections open behind the first n tokens
RECURSIVE Depth(_)
Depth(n) ==
    IF n = 0 THEN 0
    ELSE Depth(n - 1) + (CASE tokens[n] = LeftCurly -> 1
                           [] tokens[n] = RightCurly -> -1
                           [] OTHER -> 0)

\* every RightCurly closes a LeftCurly and every LeftCurly is closed
BraceBalanced ==
    /\ \A n \in 0..Len(tokens) : Depth(n) >= 0
    /\ Depth(Len(tokens)) = 0

\* C28: current_indent is balanced: when parse has returned Ok on a
\* vector with balanced braces, a={} among them, current_indent is 0.
C28_IndentBalanced ==
    /\ (outcome.st = "ok" /\ BraceBalanced) => current_indent = 0
    /\ (outcome.st = "ok" /\ tokens = Tokens_empty) => current_indent = 0

(***************************************************************************)
(* Properties of the accessors.                                            *)
(***************************************************************************)
\* the variant an accessor is for, and the name of the kind it asks for
VariantOf(fn) ==
    CASE fn = "as_i32" -> "Integer" [] fn = "as_f32" -> "Float"
      [] fn = "as_string" -> "String" [] fn = "as_bool" -> "Bool"
      [] fn = "as_list" -> "List" [] fn = "as_dict" -> "Dict"
      [] fn = "as_identifier" -> "Identifier" [] fn = "as_date" -> "Date"
RequestedKind(fn) ==
    CASE fn = "as_i32" -> "integer" [] fn = "as_f32" -> "float"
      [] fn = "as_string" -> "string" [] fn = "as_bool" -> "bool"
      [] fn = "as_list" -> "list" [] fn = "as_dict" -> "dict"
      [] fn = "as_identifier" -> "identifier" [] fn = "as_date" -> "date"

\* an accessor was called: on its own variant it gave the payload
AccessMatched ==
    (call.fn # "none" /\ call.self.t = VariantOf(call.fn)) =>
        /\ accessed.st = "ok"
        /\ accessed.n = call.self.n
        /\ accessed.s = call.self.s
        /\ call.on = "val" =>
              (accessed.items = call.self.items /\ accessed.map = call.self.map)

\* C18: an accessor called on its own variant returns the payload, and on
\* any other variant fails with InvalidValue of the name of the kind that
\* was asked for (as_date: InvalidValue("date")).
C18_AccessorNamesRequestedKind ==
    /\ AccessMatched
    /\ (call.fn # "none" /\ call.self.t # VariantOf(call.fn)) =>
          accessed = InvalidValue(RequestedKind(call.fn))

\* the same for every accessor but as_date
C18_ExceptAsDate ==
    /\ AccessMatched
    /\ (call.fn \notin {"none", "as_date"} /\ call.self.t # VariantOf(call.fn)) =>
          accessed = InvalidValue(RequestedKind(call.fn))

\* C19: the value made from a key by into() has the variant of the same
\* name and the same payload (and neither items nor a map), and no other
\* key gives an equal value.
C19_IntoInjective ==
    call.key # NoKey =>
        /\ call.self.t = call.key.t
        /\ call.self.t \in {"Integer", "String", "Date", "Identifier"}
        /\ call.self.n = call.key.n
        /\ call.self.s = call.key.s
        /\ call.self.items = <<>> /\ call.self.map = <<>>
        /\ \A other \in AccessKeys : other # call.key => Into(other) # call.self

\* the Identifier "test" became a value, next to the String "test"
C19_Witness ==
    /\ call.key = KeyIdentifier(<<"t", "e", "s", "t">>)
    /\ call.self = ValIdentifier(<<"t", "e", "s", "t">>)
    /\ KeyString(<<"t", "e", "s", "t">>) \in AccessKeys

(***************************************************************************)
(* Properties of the parser: classification of a slice.  The shapes of the *)
(* texts are stated here on the text itself, apart from the conversions    *)
(* above.                                                                  *)
(***************************************************************************)
DigitChars == {"0", "1", "2", "3", "4", "5", "6", "7", "8", "9"}
AllDigits(b) == Range(b) \subseteq DigitChars
DigitString(b) == b # <<>> /\ AllDigits(b)

YES == <<"y", "e", "s">>
NO == <<"n", "o">>

\* d without its leading zeros
RECURSIVE StripZeros(_)
StripZeros(d) == IF d # <<>> /\ Head(d) = "0" THEN StripZeros(Tail(d)) ELSE d

\* the number written by the digits d is at most the number written by the
\* digits limit (neither has a leading zero)
AtMost(d, limit) ==
    \/ Len(d) < Len(limit)
    \/ /\ Len(d) = Len(limit)
       /\ \A i \in DOMAIN d :
             (\A j \in 1..(i - 1) : d[j] = limit[j]) => DigitVal(d[i]) <= DigitVal(limit[i])

I32MaxText == <<"2", "1", "4", "7", "4", "8", "3", "6", "4", "7">>
I32MinText == <<"2", "1", "4", "7", "4", "8", "3", "6", "4", "8">>

\* b is a base-10 integer, with an optional sign, in -2^31 .. 2^31 - 1
IsI32Text(b) ==
    LET signed == b # <<>> /\ Head(b) \in {"+", "-"}
        digits == IF signed THEN Tail(b) ELSE b
    IN  /\ DigitString(digits)
        /\ AtMost(StripZeros(digits),
                  IF signed /\ Head(b) = "-" THEN I32MinText ELSE I32MaxText)

\* b matches [+-]? digits* "." digits+
IsFloatText(b) ==
    \E dot \in DOMAIN b :
        /\ b[dot] = "."
        /\ DigitString(SubSeq(b, dot + 1, Len(b)))
        /\ \/ AllDigits(SubSeq(b, 1, dot - 1))
           \/ /\ dot > 1
              /\ b[1] \in {"+", "-"}
              /\ AllDigits(SubSeq(b, 2, dot - 1))

\* b matches digits+ "." d{1,2} "." d{1,2}, the dots being at d1 and d2
DateShapeAt(b, d1, d2) ==
    /\ d1 < d2
    /\ b[d1] = "." /\ b[d2] = "."
    /\ DigitString(SubSeq(b, 1, d1 - 1))
    /\ DigitString(SubSeq(b, d1 + 1, d2 - 1)) /\ d2 - d1 - 1 <= 2
    /\ DigitString(SubSeq(b, d2 + 1, Len(b))) /\ Len(b) - d2 <= 2
IsDateText(b) == \E d1, d2 \in DOMAIN b : DateShapeAt(b, d1, d2)

\* the same, with a year that fits a signed 32-bit integer
IsDateTextI32(b) ==
    \E d1, d2 \in DOMAIN b :
        DateShapeAt(b, d1, d2) /\ IsI32Text(SubSeq(b, 1, d1 - 1))

\* the variant C4 gives an unquoted slice in value position
C4_Kind(b) ==
    IF IsI32Text(b) THEN "Integer"
    ELSE IF IsFloatText(b) THEN "Float"
    ELSE IF b \in {YES, NO} THEN "Bool"
    ELSE IF IsDateText(b) THEN "Date"
    ELSE "Identifier"

\* the same with the year of a Date in the i32 range
C4_KindI32(b) ==
    IF IsI32Text(b) THEN "Integer"
    ELSE IF IsFloatText(b) THEN "Float"
    ELSE IF b \in {YES, NO} THEN "Bool"
    ELSE IF IsDateTextI32(b) THEN "Date"
    ELSE "Identifier"

\* parse_value has just returned a value made by its Untyped arm, from the
\* token before the cursor
UntypedValueReturned ==
    /\ Running
    /\ top.pc = "got"
    /\ ret.st = "ok"
    /\ ret.val.t \notin {"String", "List", "Dict"}

\* value is what the cascade of kinds kind(b) makes of b: the variant, and
\* the payload of a Bool and of an Identifier
ValueOfKind(value, b, kind) ==
    /\ value.t = kind
    /\ kind = "Bool" => value = ValBool(b = YES)
    /\ kind = "Identifier" => value = ValIdentifier(b)

\* the vector is "a = b" for one Untyped b
ValueVector == Len(tokens) = 3 /\ tokens[1] = Ua /\ tokens[2] = Equals /\ tokens[3].k = "Untyped"

C4_Examples ==
    /\ (Finished /\ tokens = <<Ua, Equals, Untyped(<<"4", "2">>)>>) =>
          outcome = Parsed(Ka :> ValInteger(42))
    /\ (Finished /\ tokens = <<Ua, Equals, Untyped(<<"4", "2", ".", "5">>)>>) =>
          outcome = Parsed(Ka :> ValFloat(<<"4", "2", ".", "5">>))
    /\ (Finished /\ tokens = <<Ua, Equals, Untyped(YES)>>) =>
          outcome = Parsed(Ka :> ValBool(TRUE))
    /\ (Finished /\ tokens = <<Ua, Equals, Untyped(NO)>>) =>
          outcome = Parsed(Ka :> ValBool(FALSE))
    /\ (Finished /\ tokens = <<Ua, Equals, Untyped(<<"2", "0", "1", "8", ".", "5", ".", "1", "6">>)>>) =>
          outcome = Parsed(Ka :> ValDate(2018, 5, 16))

\* C4 as stated: an unquoted slice in value position is an Integer when it
\* is an i32 text, else a Float when it matches [+-]?digits*.digits+, else
\* a Bool when it is yes or no, else a Date when it matches
\* digits+.d{1,2}.d{1,2}, else the Identifier of the slice.
C4_ValueCascade ==
    /\ UntypedValueReturned =>
          ValueOfKind(ret.val, TokenAt(position - 1).b, C4_Kind(TokenAt(position - 1).b))
    /\ (Finished /\ ValueVector) =>
          /\ outcome.st = "ok"
          /\ DOMAIN outcome.val.map = {Ka}
          /\ ValueOfKind(outcome.val.map[Ka], tokens[3].b, C4_Kind(tokens[3].b))
    /\ C4_Examples

\* C4 amended: the same, a Date being a slice that matches
\* digits+.d{1,2}.d{1,2} and whose year is in the i32 range.
C4_ValueCascadeI32 ==
    /\ UntypedValueReturned =>
          ValueOfKind(ret.val, TokenAt(position - 1).b, C4_KindI32(TokenAt(position - 1).b))
    /\ (Finished /\ ValueVector) =>
          /\ outcome.st = "ok"
          /\ DOMAIN outcome.val.map = {Ka}
          /\ ValueOfKind(outcome.val.map[Ka], tokens[3].b, C4_KindI32(tokens[3].b))
    /\ C4_Examples

\* a text of the shape of a date whose year is 2^31, as an element of a
\* list: the Identifier of the text
C4_Witness ==
    /\ UntypedValueReturned
    /\ top.fn = "parse_list"
    /\ TokenAt(position - 1).b =
          <<"2", "1", "4", "7", "4", "8", "3", "6", "4", "8", ".", "1", ".", "1">>
    /\ ret.val = ValIdentifier(TokenAt(position - 1).b)

\* parse_key has just returned a key made by its Untyped arm, from the
\* token before the cursor
UntypedKeyReturned ==
    /\ Running
    /\ top.fn \in {"parse", "parse_dict"}
    /\ top.pc = "equals"
    /\ top.key.t # "String"

\* the vector is "b = a" for one Untyped b
KeyVector == Len(tokens) = 3 /\ tokens[1].k = "Untyped" /\ tokens[2] = Equals /\ tokens[3] = Ua

KeyOfSlice(key, b) ==
    /\ key.t \in {"Integer", "Date", "Identifier"}
    /\ key.t = "Integer" <=> IsI32Text(b)
    /\ key.t = "Date" <=> (~IsI32Text(b) /\ IsDateTextI32(b))
    /\ key.t = "Identifier" => key = KeyIdentifier(b)

\* C5: an unquoted slice in key position is an Integer, else a Date, else
\* the Identifier of the slice, never a Float or a Bool: the keys yes, no
\* and 1.5 are Identifiers, 12 is Integer(12), 2018.5.16 is Date(2018,5,16).
C5_KeyCascade ==
    /\ UntypedKeyReturned => KeyOfSlice(top.key, TokenAt(position - 1).b)
    /\ (Finished /\ KeyVector) =>
          /\ outcome.st = "ok"
          /\ \E key \in DOMAIN outcome.val.map :
                /\ DOMAIN outcome.val.map = {key}
                /\ KeyOfSlice(key, tokens[1].b)
                /\ tokens[1].b = YES => key = KeyIdentifier(YES)
                /\ tokens[1].b = NO => key = KeyIdentifier(NO)
                /\ tokens[1].b = <<"1", ".", "5">> => key = KeyIdentifier(<<"1", ".", "5">>)
                /\ tokens[1].b = <<"1", "2">> => key = KeyInteger(12)
                /\ tokens[1].b = <<"2", "0", "1", "8", ".", "5", ".", "1", "6">> =>
                      key = KeyDate(2018, 5, 16)

\* the first key of a dict collection, read as the value Bool(true) before
\* the rewind, is the Identifier yes
C5_Witness ==
    /\ UntypedKeyReturned
    /\ top.fn = "parse_dict"
    /\ stack[Len(stack) - 1].first = ValBool(TRUE)
    /\ top.key = KeyIdentifier(YES)

\* a Quote followed by an Untyped is to be read in key position
QuotedKeyNext ==
    /\ Running
    /\ top.fn \in {"parse", "parse_dict"} /\ top.pc = "loop"
    /\ InBounds(position + 1)
    /\ TokenAt(position) = Quote /\ TokenAt(position + 1).k = "Untyped"

\* a Quote followed by an Untyped is to be read in value position
QuotedValueNext ==
    /\ Running
    /\ top.pc = "value"
    /\ InBounds(position + 1)
    /\ TokenAt(position) = Quote /\ TokenAt(position + 1).k = "Untyped"

\* C6: a Quote in key or value position followed by an Untyped gives the
\* String of the bytes of that Untyped, whatever they spell, and moves the
\* cursor by exactly three tokens.
C6_QuotedIsString ==
    [][ /\ QuotedKeyNext =>
              /\ position' = position + 3
              /\ stack'[Len(stack)].key = KeyString(TokenAt(position + 1).b)
        /\ QuotedValueNext =>
              /\ position' = position + 3
              /\ ret' = RetOk(ValString(TokenAt(position + 1).b)) ]_vars

\* the quoted key 42 of a dict collection and the quoted value 42
C6_Witness ==
    \/ /\ Running
       /\ top.fn = "parse_dict" /\ top.pc = "equals"
       /\ top.key = KeyString(<<"4", "2">>)
       /\ position = 6
    \/ /\ Running
       /\ top.pc = "got"
       /\ ret = RetOk(ValString(<<"4", "2">>))
       /\ position = 5

(***************************************************************************)
(* Properties of the parser: the rewind of parse_collection.               *)
(***************************************************************************)
Tokens_yesKey == <<Ua, Equals, LeftCurly, Untyped(YES), Equals, Ub, RightCurly>>

\* the cursor stands behind the first key of the dict of a collection whose
\* first token is Untyped
FirstKeyReparsed(k) ==
    /\ stack[k].fn = "parse_dict"
    /\ stack[k].pc = "equals"
    /\ position = stack[k - 1].old_pos + 1
    /\ TokenAt(stack[k - 1].old_pos).k = "Untyped"

\* the frame k of parse_list holds the first value of its collection at
\* index 0 and no more elements than tokens were read since the LeftCurly
FirstValueOnce(k) ==
    /\ stack[k - 1].fn = "parse_collection"
    /\ Len(stack[k].list) >= 1
    /\ stack[k].list[1] = stack[k - 1].first
    /\ Len(stack[k].list) <= position - stack[k - 1].old_pos

\* C25: the cursor moves backward only in parse_collection and only when
\* the token after the first value is Equals, to the position recorded
\* behind the LeftCurly, and parse_dict starts there: the first key is
\* classified as a key ({yes=b} has the key Identifier(yes)).  When that
\* token is not Equals the cursor stays and parse_list starts with the
\* first value, which is at index 0 of the list, once.
C25_RewindOnlyForDict ==
    /\ [][/\ position' < position =>
              /\ Rewind
              /\ position' = top.old_pos
              /\ TokenAt(position' - 1) = LeftCurly
              /\ stack'[Len(stack')].fn = "parse_dict"
          /\ (/\ At("parse_collection", "got") /\ ret.st = "ok"
              /\ InBounds(position) /\ TokenAt(position) # Equals) =>
                 /\ position' = position
                 /\ stack'[Len(stack')] =
                        [Frame("parse_list", "loop") EXCEPT !.list = <<ret.val>>]]_vars
    /\ [](Running =>
            \A k \in 2..Len(stack) :
                /\ FirstKeyReparsed(k) =>
                       KeyOfSlice(stack[k].key, TokenAt(stack[k - 1].old_pos).b)
                /\ stack[k].fn = "parse_list" => FirstValueOnce(k))
    /\ []((Finished /\ tokens = Tokens_yesKey) =>
            outcome = Parsed(Ka :> ValDict(KeyIdentifier(YES) :> ValIdentifier(<<"b">>))))

\* parse has returned the Dict of {yes=b}, whose first element was read as
\* the value Bool(true) before the rewind
C25_Witness ==
    /\ tokens = Tokens_yesKey
    /\ outcome = Parsed(Ka :> ValDict(KeyIdentifier(YES) :> ValIdentifier(<<"b">>)))

(***************************************************************************)
(* Properties of the parser: numbers out of the range of i32.              *)
(***************************************************************************)
DigitChar(d) == <<"0", "1", "2", "3", "4", "5", "6", "7", "8", "9">>[d + 1]

\* the decimal digits of -n, for n <= 0 (none for 0)
RECURSIVE DecimalOf(_)
DecimalOf(n) ==
    IF n = 0 THEN <<>>
    ELSE LET d == (10 - (n % 10)) % 10
         IN  DecimalOf((n + d) \div 10) \o <<DigitChar(d)>>

SignOf(b) == IF b # <<>> /\ Head(b) \in {"+", "-"} THEN <<Head(b)>> ELSE <<>>
DigitsOf(b) == SubSeq(b, Len(SignOf(b)) + 1, Len(b))

\* the text b, a sign or none and digits, writes the number n
WrittenAs(n, b) ==
    /\ DigitString(DigitsOf(b))
    /\ DecimalOf(IF n > 0 THEN -n ELSE n) = StripZeros(DigitsOf(b))
    /\ n < 0 => SignOf(b) = <<"-">>
    /\ n > 0 => SignOf(b) # <<"-">>

\* b is a sign or none and digits that write a number out of the i32
\* range, or has the shape of a date with such a year
OutOfRange(b) ==
    \/ DigitString(DigitsOf(b)) /\ ~IsI32Text(b)
    \/ IsDateText(b) /\ ~IsDateTextI32(b)

Text_2p31 == I32MinText
Text_below == <<"-", "2", "1", "4", "7", "4", "8", "3", "6", "4", "9">>
Text_date2p31 == <<"2", "1", "4", "7", "4", "8", "3", "6", "4", "8", ".", "1", ".", "1">>

\* C27: the classification of an unquoted slice gives a key or a value for
\* every slice, an Integer is the number its text writes (no wrapping),
\* and digits out of the i32 range, as a date-shaped text with a year out
\* of it, are the Identifier of the text, as a key and as a value.
C27_NoFailNoWrap ==
    /\ outcome.st # "panic"
    /\ (Running /\ top.pc = "got" /\ TokenAt(position - 1).k = "Untyped") => ret.st = "ok"
    /\ UntypedValueReturned =>
          LET b == TokenAt(position - 1).b
          IN  /\ ret.val.t = "Integer" => WrittenAs(ret.val.n[1], b)
              /\ ret.val.t = "Date" => WrittenAs(ret.val.n[1], SubSeq(b, 1, FirstDot(b) - 1))
              /\ OutOfRange(b) => ret.val = ValIdentifier(b)
    /\ UntypedKeyReturned =>
          LET b == TokenAt(position - 1).b
          IN  /\ top.key.t = "Integer" => WrittenAs(top.key.n[1], b)
              /\ top.key.t = "Date" => WrittenAs(top.key.n[1], SubSeq(b, 1, FirstDot(b) - 1))
              /\ OutOfRange(b) => top.key = KeyIdentifier(b)
    /\ \A b \in {Text_2p31, Text_below, Text_date2p31} :
          /\ (Finished /\ tokens = <<Ua, Equals, Untyped(b)>>) =>
                outcome = Parsed(Ka :> ValIdentifier(b))
          /\ (Finished /\ tokens = <<Untyped(b), Equals, Ua>>) =>
                outcome = Parsed(KeyIdentifier(b) :> ValIdentifier(<<"a">>))

\* the key 2147483648, one more than the largest i32, is an Identifier
C27_Witness ==
    /\ tokens = <<Untyped(Text_2p31), Equals, Ua>>
    /\ outcome = Parsed(KeyIdentifier(Text_2p31) :> ValIdentifier(<<"a">>))

(***************************************************************************)
(* Properties of the tokenizer: runs of Untyped bytes and the two modes.   *)
(***************************************************************************)
PunctuationBytes == {"=", "\"", "{", "}", "(", ")", "#", ","}

\* the place i of the buffer (from 1) is outside it or holds a punctuation
\* or a whitespace byte
Delimiter(i) == i \notin DOMAIN buf \/ buf[i] \in PunctuationBytes \cup WhitespaceBytes

\* C29: an Untyped token pushed outside a quoted region is the bytes that
\* end before the cursor, is not empty, holds no punctuation byte, and the
\* bytes before and behind it are punctuation, whitespace or an end of the
\* buffer; no Untyped token at all holds a quote byte.
C29_UntypedMaximal ==
    /\ [][\A i \in (Len(tokens) + 1)..Len(tokens') :
              (tokens'[i].k = "Untyped" /\ ~(InQuotedRegion(i))') =>
                  LET b == tokens'[i].b
                  IN  /\ b # <<>>
                      /\ Len(b) <= pos
                      /\ b = SubSeq(buf, pos - Len(b) + 1, pos)
                      /\ Range(b) \cap PunctuationBytes = {}
                      /\ Delimiter(pos - Len(b))
                      /\ Delimiter(pos + 1)]_vars
    /\ [](\A i \in DOMAIN tokens :
            tokens[i].k = "Untyped" =>
                /\ "\"" \notin Range(tokens[i].b)
                /\ ~InQuotedRegion(i) =>
                       (tokens[i].b # <<>> /\ Range(tokens[i].b) \cap PunctuationBytes = {}))

\* a run pushed outside a quoted region behind a closed quoted region
C29_Witness ==
    /\ tstate = "done"
    /\ \E i \in DOMAIN tokens :
          /\ tokens[i].k = "Untyped" /\ ~InQuotedRegion(i)
          /\ tokens[i].b # <<>>
          /\ QuotesBefore(i) >= 2

\* C30: in_quote and in_comment are never both true: a "#" read in a
\* quoted region starts no comment, a quote byte read in a comment leaves
\* in_quote alone, a comment begins at a "#" outside a quoted region only
\* and ends at a newline only.
C30_QuoteXorComment ==
    /\ [](~(in_quote /\ in_comment))
    /\ [][Scanning =>
              /\ (in_quote /\ chr = "#") => (~in_comment' /\ in_quote')
              /\ (in_comment /\ chr = "\"") => (in_quote' = in_quote /\ in_comment')
              /\ (in_comment' /\ ~in_comment) => (~in_quote /\ chr = "#")
              /\ (in_comment /\ ~in_comment') => chr = "\n"]_vars

\* a "#" has been read in a quoted region
C30_Witness ==
    /\ tstate = "scan"
    /\ in_quote
    /\ ~in_comment
    /\ pos >= 1
    /\ buf[pos] = "#"

(***************************************************************************)
(* Properties of the tokenizer: the tokens outside quoted regions and      *)
(* comments, told from the buffer alone.                                   *)
(***************************************************************************)
\* the token of each punctuation byte
PunctuationToken ==
    ("=" :> Equals) @@ ("\"" :> Quote) @@ ("{" :> LeftCurly) @@ ("}" :> RightCurly)
        @@ ("(" :> LeftParanthesis) @@ (")" :> RightParanthesis)
        @@ ("#" :> Comment) @@ ("," :> Comma)

\* the first j bytes of the buffer cut at punctuation and whitespace, the
\* bytes of quoted regions (closing quote included) and of comments left
\* out: toks, the tokens in the order of the bytes, and run, the bytes of
\* the run that is still open
RECURSIVE SplitUpTo(_)
SplitUpTo(j) ==
    IF j = 0 THEN [toks |-> <<>>, run |-> <<>>]
    ELSE LET s == SplitUpTo(j - 1)
             m == ModeAt(j - 1)
             b == buf[j]
             closed == s.toks \o (IF s.run # <<>> THEN <<Untyped(s.run)>> ELSE <<>>)
         IN  IF m.c \/ m.q THEN s
             ELSE IF b \in PunctuationBytes
             THEN [toks |-> Append(closed, PunctuationToken[b]), run |-> <<>>]
             ELSE IF b \in WhitespaceBytes THEN [toks |-> closed, run |-> <<>>]
             ELSE [toks |-> s.toks, run |-> Append(s.run, b)]

\* the tokens among the first n that were pushed outside a quoted region
RECURSIVE OutsideUpTo(_)
OutsideUpTo(n) ==
    IF n = 0 THEN <<>>
    ELSE OutsideUpTo(n - 1) \o (IF InQuotedRegion(n) THEN <<>> ELSE <<tokens[n]>>)

\* the bytes of the pending run
PendingBytes == IF is_some(untyped_start) THEN SubSeq(buf, unwrap(untyped_start) + 1, pos) ELSE <<>>

\* C31: outside quoted regions and comments nothing is lost or reordered:
\* the tokens pushed there are, in the order of the buffer, one token of
\* its kind for each punctuation byte and one Untyped for each run of bytes
\* that are neither punctuation nor whitespace, and a run pending at the
\* end of the input is the last token.
C31_NothingLost ==
    /\ tstate = "scan" =>
          /\ OutsideUpTo(Len(tokens)) = SplitUpTo(pos).toks
          /\ ~in_quote => PendingBytes = SplitUpTo(pos).run
    /\ tstate = "done" =>
          LET s == SplitUpTo(Len(buf))
          IN  OutsideUpTo(Len(tokens)) =
                 s.toks \o (IF s.run # <<>> THEN <<Untyped(s.run)>> ELSE <<>>)
    /\ (tstate = "done" /\ buf = Bytes_date) =>
          tokens = <<Untyped(<<"d", "a", "t", "e">>), Equals,
                     Untyped(<<"1", "5", "9", "7", ".", "1", ".", "1">>)>>

\* a run pending at the end of the input, behind a closed quoted region
\* and a whitespace byte, is the last token
C31_Witness ==
    /\ tstate = "done"
    /\ ~in_quote
    /\ Range(buf) \cap WhitespaceBytes # {}
    /\ tokens # <<>>
    /\ tokens[Len(tokens)].k = "Untyped"
    /\ QuotesBefore(Len(tokens)) = 2
    /\ SplitUpTo(Len(buf)).run = tokens[Len(tokens)].b

(***************************************************************************)
(* Properties of the parser: current_indent.                               *)
(***************************************************************************)
\* the collections that are being parsed and are not closed: the frames of
\* parse_collection before its call of parse_dict or parse_list, and the
\* frames of parse_dict and parse_list
OpenCollections ==
    {k \in DOMAIN stack :
        \/ stack[k].fn = "parse_collection" /\ stack[k].pc # "ret"
        \/ stack[k].fn \in {"parse_dict", "parse_list"}}

\* parse_dict or parse_list has pushed an element and the token at the
\* cursor is a RightCurly: the next step is the decrement
BeforeDecrement ==
    /\ Running
    /\ top.fn \in {"parse_dict", "parse_list"}
    /\ top.pc = "got"
    /\ ret.st = "ok"
    /\ InBounds(position)
    /\ TokenAt(position) = RightCurly

\* C32: current_indent never underflows: it is at least the number of
\* collections being parsed, at least 1 before every decrement, and a
\* step lowers it by one only, at the RightCurly that closes a dict or a
\* list.
C32_NoUnderflow ==
    /\ [](current_indent >= Cardinality(OpenCollections))
    /\ [](BeforeDecrement => current_indent >= 1)
    /\ [][current_indent' # current_indent =>
              \/ current_indent' = current_indent + 1 /\ TokenAt(position) = LeftCurly
              \/ /\ BeforeDecrement
                 /\ current_indent >= 1
                 /\ current_indent' = current_indent - 1]_vars

\* the list of two elements inside another collection has been closed:
\* current_indent went from 2 to 1
C32_Witness ==
    /\ Running
    /\ top.fn = "parse_collection"
    /\ ret.st = "ok"
    /\ ret.val.t = "List"
    /\ Len(ret.val.items) = 2
    /\ position \in 1..Len(tokens)
    /\ TokenAt(position - 1) = RightCurly
    /\ current_indent = 1
    /\ top.pc = "got"
    /\ Cardinality(OpenCollections) = 1

====
